---- MODULE Spec2Model ----
(***************************************************************************)
(* Backtest engine (backend/app/engine/backtest_engine.py) and label       *)
(* ranking engine (backend/app/services/label_calculator.py) of the        *)
(* quantitative backtesting tool, as state machines.                       *)
(*                                                                         *)
(* Prices, cash and volumes are integers and a weight 1.0/top_k is kept as *)
(* its denominator.  The simulator's float operations round to a binary    *)
(* format of MantissaBits bits.  A ratio that is only compared or stored   *)
(* (a return, a change percentage, a score) is kept exact, as a pair       *)
(* <<numerator, denominator>> compared by cross-multiplication.            *)
(***************************************************************************)
EXTENDS Integers, Sequences, FiniteSets, TLC

VARIABLES
    price_data,       \* the price panel: a function (date, symbol) -> close
    signals,          \* the signal frame: a sequence of signal rows
    initial_capital,  \* the initial capital of the simulation
    sim,              \* the invocations of _simulate_trading, by run number
    gen,              \* the invocation of _generate_signals
    met,              \* the invocation of _calculate_metrics
    prices_daily,     \* the price store of the ranking engine, rows in the window
    labels,           \* table labels: the label definitions
    label_stocks,     \* table label_stocks: the label members
    tasks,            \* table tasks: task_id -> status
    calc_db,          \* LabelCalculator.db
    lab,              \* the invocations of calculate_label, by run number
    mgr               \* the TaskManager and the asyncio tasks it created

btVars == <<price_data, signals, initial_capital, sim, gen, met>>

labVars == <<prices_daily, labels, label_stocks, tasks, calc_db, lab>>

vars == <<price_data, signals, initial_capital, sim, gen, met,
          prices_daily, labels, label_stocks, tasks, calc_db, lab, mgr>>

----------------------------------------------------------------------------
(* Bounds of the model *)

MaxDates == 2
MaxClose == 2
MaxCapital == 14
CapitalStep == 7
SmallCapital == 2
MaxSimClose == 3
MantissaBits == 3
MaxSignalsPerDate == 2
MaxPanelDates == 3
MaxTopK == 2
MaxLookback == 2
MaxRows == 2
MaxVolume == 2
MinCap == 4
MaxHistory == 3
MaxValue == 4
MaxTrades == 2
MaxTasks == 3

----------------------------------------------------------------------------
(* Dates and symbols *)

\* ISO dates <<year, month, day>>, in ascending order; 2023-01-02 is a Monday.
DateUniverse ==
    << <<2023, 1, 2>>, <<2023, 1, 3>>, <<2023, 2, 6>>, <<2024, 2, 5>>,
       <<2024, 2, 6>> >>

Symbols == {"AAA", "BBB"}

WeightDens == {1, 2}

SimRuns == {1, 2}

\* String comparison of two ISO dates (zero padded, so field by field).
DateLess(a, b) ==
    \/ a[1] < b[1]
    \/ a[1] = b[1] /\ a[2] < b[2]
    \/ a[1] = b[1] /\ a[2] = b[2] /\ a[3] < b[3]

\* String comparison of two symbols of the model.
SymbolLess(a, b) == a = "AAA" /\ b = "BBB"

RECURSIVE SortDates(_)
\* df.select("date").unique().sort("date")["date"].to_list() of a set of dates
SortDates(S) ==
    IF S = {} THEN <<>>
    ELSE LET first == CHOOSE d \in S : \A e \in S \ {d} : DateLess(d, e)
         IN  <<first>> \o SortDates(S \ {first})

\* filter(pl.col("symbol") == symbol) of a date's rows is not empty
HasQuote(pd, date, symbol) == <<date, symbol>> \in DOMAIN pd

\* The distinct trading dates of a price panel, ascending.
AllDates(pd) == SortDates({k[1] : k \in DOMAIN pd})

----------------------------------------------------------------------------
(* Signal generator: BacktestEngine._generate_signals and what it calls *)

StrategyTypes == {"momentum", "mean_reversion", "pairs"}

Frequencies == {"daily", "weekly", "monthly", "yearly"}

\* Days since 1970-01-01 of a civil date (proleptic Gregorian calendar).
DaysFromCivil(date) ==
    LET y   == IF date[2] <= 2 THEN date[1] - 1 ELSE date[1]
        era == y \div 400
        yoe == y - era * 400
        mp  == (date[2] + 9) % 12
        doy == (153 * mp + 2) \div 5 + date[3] - 1
        doe == yoe * 365 + yoe \div 4 - yoe \div 100 + doy
    IN  era * 146097 + doe - 719468

\* datetime.fromisoformat(date).weekday(): Monday is 0; 1970-01-01 was a
\* Thursday.
Weekday(date) == (DaysFromCivil(date) + 3) % 7

\* datetime.fromisoformat(date).month
Month(date) == date[2]

\* A weekly selection that lets a Tuesday stand in for a Monday.
WeeklyDatesOrTuesday(dates) == SelectSeq(dates, LAMBDA d : Weekday(d) <= 1)

\* The weekly branch (line 228): the dates that are Mondays.
RECURSIVE WeeklyDates(_)
WeeklyDates(dates) ==
    IF dates = <<>> THEN <<>>
    ELSE (IF Weekday(Head(dates)) = 0 THEN <<Head(dates)>> ELSE <<>>)
         \o WeeklyDates(Tail(dates))

\* The monthly branch (lines 231-238): a date is taken when its month number
\* differs from current_month, the month number of the date taken last
\* (0 stands for None).
RECURSIVE MonthlyDates(_, _)
MonthlyDates(dates, current_month) ==
    IF dates = <<>> THEN <<>>
    ELSE IF Month(Head(dates)) # current_month
         THEN <<Head(dates)>> \o MonthlyDates(Tail(dates), Month(Head(dates)))
         ELSE MonthlyDates(Tail(dates), current_month)

\* _get_rebalance_dates for a supported frequency.
RebalanceDates(pd, frequency) ==
    LET dates == AllDates(pd)
    IN  CASE frequency = "daily"   -> dates
          [] frequency = "weekly"  -> WeeklyDates(dates)
          [] frequency = "monthly" -> MonthlyDates(dates, 0)

\* The closes of one symbol in frame order (the panel is ordered by date).
RECURSIVE SeriesOf(_, _, _)
SeriesOf(pd, symbol, dates) ==
    IF dates = <<>> THEN <<>>
    ELSE (IF HasQuote(pd, Head(dates), symbol)
          THEN <<pd[<<Head(dates), symbol>>]>> ELSE <<>>)
         \o SeriesOf(pd, symbol, Tail(dates))

\* The row offset of a date within its symbol's series (1-based).
RowIndex(pd, symbol, date) ==
    Cardinality({d \in {k[1] : k \in DOMAIN pd} :
                    HasQuote(pd, d, symbol) /\ ~DateLess(date, d)})

RECURSIVE SumSeq(_)
SumSeq(q) == IF q = <<>> THEN 0 ELSE Head(q) + SumSeq(Tail(q))

\* close / close.shift(lookback_period).over("symbol") - 1 (line 156), as a
\* ratio; <<>> (null) when fewer than lookback_period rows precede the row.
MomentumReturn(pd, symbol, date, lookback_period) ==
    LET series == SeriesOf(pd, symbol, AllDates(pd))
        j == RowIndex(pd, symbol, date)
    IN  IF j - lookback_period < 1 THEN <<>>
        ELSE <<series[j] - series[j - lookback_period], series[j - lookback_period]>>

\* (close - ma) / ma with ma = rolling_mean(lookback_period).over("symbol")
\* (lines 194-196), as a ratio; <<>> (null) while the window is not full.
Deviation(pd, symbol, date, lookback_period) ==
    LET series == SeriesOf(pd, symbol, AllDates(pd))
        j == RowIndex(pd, symbol, date)
        window == SubSeq(series, j - lookback_period + 1, j)
    IN  IF j < lookback_period THEN <<>>
        ELSE <<series[j] * lookback_period - SumSeq(window), SumSeq(window)>>

\* a < b for two ratios with positive denominators
RatioLess(a, b) == a[1] * b[2] < b[1] * a[2]

\* a = b for two ratios
SameRatio(x, y) == x[1] * y[2] = y[1] * x[2]

\* The metric column of a strategy: "return" or "deviation".
Metric(strategy_type, pd, symbol, date, lookback_period) ==
    IF strategy_type = "momentum"
    THEN MomentumReturn(pd, symbol, date, lookback_period)
    ELSE Deviation(pd, symbol, date, lookback_period)

\* df.filter(date).drop_nulls(metric): the symbols of the date's rows whose
\* metric is not null.
Eligible(strategy_type, pd, date, lookback_period) ==
    {y \in Symbols : /\ HasQuote(pd, date, y)
                     /\ Metric(strategy_type, pd, y, date, lookback_period) # <<>>}

\* The orders sort(metric) can leave the rows in: ascending (descending when
\* the flag is set) in the metric; rows with equal metric in any order.
SortedOrders(S, key, descending) ==
    {q \in [1..Cardinality(S) -> S] :
        /\ \A a, b \in 1..Cardinality(S) : a # b => q[a] # q[b]
        /\ \A a, b \in 1..Cardinality(S) :
              a < b => IF descending THEN ~RatioLess(key[q[a]], key[q[b]])
                                     ELSE ~RatioLess(key[q[b]], key[q[a]])}

\* head(top_k) of a sequence
HeadRows(q, top_k) == SubSeq(q, 1, IF top_k < Len(q) THEN top_k ELSE Len(q))

\* The rows appended for one rebalance date (lines 171-178 and 209-216).
SignalRowsOf(pd, date, selected, top_k) ==
    [j \in 1..Len(selected) |->
        [date |-> date, symbol |-> selected[j], signal |-> "BUY",
         wden |-> top_k, price |-> pd[<<date, selected[j]>>]]]

\* A selection without the height test: the first rows there are, up to top_k.
SelectionsPartial(strategy_type, pd, date, lookback_period, top_k) ==
    LET elig == Eligible(strategy_type, pd, date, lookback_period)
        key == [y \in elig |-> Metric(strategy_type, pd, y, date, lookback_period)]
    IN  {HeadRows(q, top_k) :
            q \in SortedOrders(elig, key, strategy_type = "momentum")}

\* The selections of one rebalance date: none when fewer than top_k rows have
\* a metric (lines 167 and 205), else the first top_k rows of the sorted rows.
Selections(strategy_type, pd, date, lookback_period, top_k) ==
    LET elig == Eligible(strategy_type, pd, date, lookback_period)
        key == [y \in elig |-> Metric(strategy_type, pd, y, date, lookback_period)]
    IN  IF Cardinality(elig) >= top_k
        THEN {HeadRows(q, top_k) :
                q \in SortedOrders(elig, key, strategy_type = "momentum")}
        ELSE {<<>>}

GenOff ==
    [pc |-> "off", strategy_type |-> "momentum", rebalance_frequency |-> "daily",
     top_k |-> 1, lookback_period |-> 1, rebalance_dates |-> <<>>, k |-> 1]

\* _generate_signals (lines 137-142) up to the loop over the rebalance
\* dates: an unsupported strategy type raises, and so does an unsupported
\* frequency inside _get_rebalance_dates (line 240).
GenerateSignals ==
    /\ gen.pc = "start"
    /\ IF gen.strategy_type \notin {"momentum", "mean_reversion"}
       THEN gen' = [gen EXCEPT !.pc = "error"]
       ELSE IF gen.rebalance_frequency \notin {"daily", "weekly", "monthly"}
            THEN gen' = [gen EXCEPT !.pc = "error"]
            ELSE gen' = [gen EXCEPT !.pc = "loop", !.k = 1,
                           !.rebalance_dates =
                               RebalanceDates(price_data, gen.rebalance_frequency)]
    /\ UNCHANGED <<price_data, signals, initial_capital, sim>>
    /\ UNCHANGED labVars
    /\ UNCHANGED mgr
    /\ UNCHANGED met

\* One rebalance date of _momentum_signals (lines 163-178).
MomentumStep ==
    /\ gen.pc = "loop"
    /\ gen.strategy_type = "momentum"
    /\ gen.k <= Len(gen.rebalance_dates)
    /\ LET date == gen.rebalance_dates[gen.k]
       IN  \E selected \in Selections("momentum", price_data, date,
                                      gen.lookback_period, gen.top_k) :
              signals' = signals \o SignalRowsOf(price_data, date, selected, gen.top_k)
    /\ gen' = [gen EXCEPT !.k = gen.k + 1]
    /\ UNCHANGED <<price_data, initial_capital, sim>>
    /\ UNCHANGED labVars
    /\ UNCHANGED mgr
    /\ UNCHANGED met

\* One rebalance date of _mean_reversion_signals (lines 202-216).
MeanReversionStep ==
    /\ gen.pc = "loop"
    /\ gen.strategy_type = "mean_reversion"
    /\ gen.k <= Len(gen.rebalance_dates)
    /\ LET date == gen.rebalance_dates[gen.k]
       IN  \E selected \in Selections("mean_reversion", price_data, date,
                                      gen.lookback_period, gen.top_k) :
              signals' = signals \o SignalRowsOf(price_data, date, selected, gen.top_k)
    /\ gen' = [gen EXCEPT !.k = gen.k + 1]
    /\ UNCHANGED <<price_data, initial_capital, sim>>
    /\ UNCHANGED labVars
    /\ UNCHANGED mgr
    /\ UNCHANGED met

\* return pl.DataFrame(signals) (lines 180 and 218)
SignalsReturn ==
    /\ gen.pc = "loop"
    /\ gen.k > Len(gen.rebalance_dates)
    /\ gen' = [gen EXCEPT !.pc = "generated"]
    /\ UNCHANGED <<price_data, signals, initial_capital, sim>>
    /\ UNCHANGED labVars
    /\ UNCHANGED mgr
    /\ UNCHANGED met

----------------------------------------------------------------------------
(* Portfolio simulator: BacktestEngine._simulate_trading *)

\* signals.filter(pl.col("date") == date): the date's signals, in frame order
RECURSIVE DailySignals(_, _)
DailySignals(sigs, date) ==
    IF sigs = <<>> THEN <<>>
    ELSE IF Head(sigs).date = date
         THEN <<Head(sigs)>> \o DailySignals(Tail(sigs), date)
         ELSE DailySignals(Tail(sigs), date)

\* cash, prices and values are Python floats: binary floating point, every
\* operation rounded to the nearest value of the format, ties to the even
\* mantissa.  MantissaBits is the precision of the format of the model (53 in
\* CPython); the share counts are ints.
RECURSIVE Pow2(_)
Pow2(n) == IF n = 0 THEN 1 ELSE 2 * Pow2(n - 1)

\* a / b rounded to the nearest integer, ties to even (a >= 0, b > 0)
RoundHalfEven(a, b) ==
    LET q == a \div b
        r == a % b
    IN  IF 2 * r < b THEN q
        ELSE IF 2 * r > b THEN q + 1
        ELSE IF q % 2 = 0 THEN q ELSE q + 1

\* The least e >= 0 with a / (b * 2^e) < 2^MantissaBits
RECURSIVE Exponent(_, _, _)
Exponent(a, b, e) ==
    IF a < b * Pow2(MantissaBits + e) THEN e ELSE Exponent(a, b, e + 1)

\* The least k >= 0 with (a * 2^k) / b >= 2^(MantissaBits - 1)
RECURSIVE Shift(_, _, _)
Shift(a, b, k) ==
    IF a * Pow2(k) >= b * Pow2(MantissaBits - 1) THEN k ELSE Shift(a, b, k + 1)

\* int(a / b) on floats a >= 0 and b > 0: the quotient is rounded to the
\* format, then truncated.
FloatQuotInt(a, b) ==
    IF a = 0 THEN 0
    ELSE IF a >= b * Pow2(MantissaBits - 1)
         THEN LET e == Exponent(a, b, 0)
              IN  RoundHalfEven(a, b * Pow2(e)) * Pow2(e)
         ELSE LET k == Shift(a, b, 0)
              IN  RoundHalfEven(a * Pow2(k), b) \div Pow2(k)

\* The float nearest to the integer v: the result of a float operation whose
\* exact result is v.
Fl(v) == IF v < 0 THEN 0 - FloatQuotInt(0 - v, 1) ELSE FloatQuotInt(v, 1)

\* All orders of a list of holdings: the iteration of an unordered mapping.
AnyPositionOrder(positions) ==
    {[j \in 1..Len(positions) |-> positions[f[j]]] :
        f \in {g \in [1..Len(positions) -> 1..Len(positions)] :
                  \A a, b \in 1..Len(positions) : a # b => g[a] # g[b]}}

\* The order in which "for symbol, shares in current_positions.items()"
\* visits the holdings: a dict iterates in insertion order.
PositionOrders(positions) == {positions}

\* current_positions[symbol] = shares on an insertion-ordered dict
SetPosition(positions, symbol, shares) ==
    IF \E j \in 1..Len(positions) : positions[j][1] = symbol
    THEN [j \in 1..Len(positions) |->
            IF positions[j][1] = symbol THEN <<symbol, shares>> ELSE positions[j]]
    ELSE Append(positions, <<symbol, shares>>)

\* A liquidation that sells a holding without a quote at a price of 1.
RECURSIVE LiquidateUnquoted(_, _, _, _)
LiquidateUnquoted(order, pd, date, acc) ==
    IF order = <<>> THEN acc
    ELSE LET symbol == Head(order)[1]
             shares == Head(order)[2]
             sell_price == IF HasQuote(pd, date, symbol)
                           THEN pd[<<date, symbol>>] ELSE 1
         IN  LiquidateUnquoted(Tail(order), pd, date,
                [acc EXCEPT
                   !.cash = Fl(acc.cash + Fl(shares * sell_price)),
                   !.trades = Append(acc.trades,
                    [date |-> date, symbol |-> symbol, action |-> "SELL",
                     shares |-> shares, price |-> sell_price,
                     value |-> Fl(shares * sell_price)])])

\* Liquidation loop (lines 267-280): acc carries cash and trades.
RECURSIVE Liquidate(_, _, _, _)
Liquidate(order, pd, date, acc) ==
    IF order = <<>> THEN acc
    ELSE LET symbol == Head(order)[1]
             shares == Head(order)[2]
         IN  IF shares > 0 /\ HasQuote(pd, date, symbol)
             THEN LET sell_price == pd[<<date, symbol>>]
                  IN  Liquidate(Tail(order), pd, date,
                        [acc EXCEPT
                           !.cash = Fl(acc.cash + Fl(shares * sell_price)),
                           !.trades = Append(acc.trades,
                            [date |-> date, symbol |-> symbol, action |-> "SELL",
                             shares |-> shares, price |-> sell_price,
                             value |-> Fl(shares * sell_price)])])
             ELSE Liquidate(Tail(order), pd, date, acc)

\* A purchase that rounds a zero allocation up to one share.
BuySharesAtLeastOne(cash, wden, price) ==
    IF cash < wden * price THEN 1 ELSE FloatQuotInt(cash, wden * price)

\* shares = int(target_value / price) with target_value = cash * weight
\* (lines 291-292).  weight = 1/wden with wden a power of two, so the product
\* is exact and the quotient is the one rounding; int truncates toward zero.
BuyShares(cash, wden, price) ==
    IF cash < 0 THEN 0 - FloatQuotInt(0 - cash, wden * price)
    ELSE FloatQuotInt(cash, wden * price)

\* Acquisition loop (lines 285-306): acc is [cash, positions, trades].
RECURSIVE Acquire(_, _, _)
Acquire(daily_signals, date, acc) ==
    IF daily_signals = <<>> THEN acc
    ELSE LET signal == Head(daily_signals)
             shares == BuyShares(acc.cash, signal.wden, signal.price)
         IN  IF shares > 0
             THEN Acquire(Tail(daily_signals), date,
                    [cash      |-> Fl(acc.cash - Fl(shares * signal.price)),
                     positions |-> SetPosition(acc.positions, signal.symbol, shares),
                     trades    |-> Append(acc.trades,
                        [date |-> date, symbol |-> signal.symbol, action |-> "BUY",
                         shares |-> shares, price |-> signal.price,
                         value |-> Fl(shares * signal.price)])])
             ELSE Acquire(Tail(daily_signals), date, acc)

\* Mark to market (lines 309-314), positions_value being the running sum: a
\* holding without a quote adds nothing.
RECURSIVE PositionsValue(_, _, _, _)
PositionsValue(positions, pd, date, positions_value) ==
    IF positions = <<>> THEN positions_value
    ELSE LET symbol == Head(positions)[1]
             shares == Head(positions)[2]
         IN  PositionsValue(Tail(positions), pd, date,
                IF HasQuote(pd, date, symbol)
                THEN Fl(positions_value + Fl(shares * pd[<<date, symbol>>]))
                ELSE positions_value)

\* A total that leaves the cash out.
TotalValueOfPositions(cash, positions_value) == positions_value

\* total_value = cash + positions_value (line 316)
TotalValue(cash, positions_value) == Fl(cash + positions_value)

\* The state of one invocation before its first date (lines 251-257).
SimStart ==
    [pc |-> "run", i |-> 1, cash |-> initial_capital, current_positions |-> <<>>,
     trades |-> <<>>, portfolio_history |-> <<>>]

\* The row of portfolio_history and the state of the run after one date
\* (lines 316-324); with initial_capital = 0 the division of "return" raises.
Recorded(s, date, bought, positions_value, total_value) ==
    IF initial_capital = 0
    THEN [s EXCEPT !.pc = "error", !.cash = bought.cash,
                   !.current_positions = bought.positions,
                   !.trades = bought.trades]
    ELSE [s EXCEPT !.i = s.i + 1,
                   !.cash = bought.cash,
                   !.current_positions = bought.positions,
                   !.trades = bought.trades,
                   !.portfolio_history = Append(s.portfolio_history,
                      [date |-> date, cash |-> bought.cash,
                       positions_value |-> positions_value,
                       total_value |-> total_value,
                       return |-> <<total_value - initial_capital,
                                    initial_capital>>])]

\* Valuation of the holdings after the rebalance (lines 308-316)
Valued(s, date, bought, positions_value) ==
    Recorded(s, date, bought, positions_value,
             TotalValue(bought.cash, positions_value))

\* A rebalance that buys the signals before it sells the prior holdings.
RebalancedBuyFirst(s, date, order, daily_signals) ==
    IF daily_signals # <<>>
    THEN LET bought == Acquire(daily_signals, date,
                          [cash |-> s.cash, positions |-> <<>>,
                           trades |-> s.trades])
         IN  [Liquidate(order, price_data, date, bought)
              EXCEPT !.positions = bought.positions]
    ELSE [cash |-> s.cash, positions |-> s.current_positions, trades |-> s.trades]

\* The rebalance of one date (lines 265-306): with signals on the date, the
\* holdings are liquidated in the given order and the signals are bought.
Rebalanced(s, date, order, daily_signals) ==
    IF daily_signals # <<>>
    THEN Acquire(daily_signals, date,
            [Liquidate(order, price_data, date,
                       [cash |-> s.cash, trades |-> s.trades, positions |-> <<>>])
             EXCEPT !.positions = <<>>])
    ELSE [cash |-> s.cash, positions |-> s.current_positions, trades |-> s.trades]

\* The body of "for date in all_dates" (lines 259-324)
DateStep(s, date, bought) ==
    Valued(s, date, bought, PositionsValue(bought.positions, price_data, date, 0))

\* _simulate_trading awaits nothing: an invocation runs to its end before
\* the event loop starts the next one.
SimTurn(r) == \A q \in SimRuns : q < r => sim[q].pc # "run"

\* One iteration of "for date in all_dates" (lines 259-324) of run r.
SimStep(r) ==
    /\ SimTurn(r)
    /\ sim[r].pc = "run"
    /\ sim[r].i <= Len(AllDates(price_data))
    /\ IF signals = <<>>
       THEN \* pl.DataFrame([]) has no "date" column: the filter raises
            sim' = [sim EXCEPT ![r].pc = "error"]
       ELSE \E order \in PositionOrders(sim[r].current_positions) :
               sim' = [sim EXCEPT ![r] =
                  DateStep(sim[r], AllDates(price_data)[sim[r].i],
                     Rebalanced(sim[r], AllDates(price_data)[sim[r].i], order,
                        DailySignals(signals, AllDates(price_data)[sim[r].i])))]
    /\ UNCHANGED <<price_data, signals, initial_capital, gen>>
    /\ UNCHANGED labVars
    /\ UNCHANGED mgr
    /\ UNCHANGED met

\* The loop is exhausted: return the two frames (line 326).
SimReturn(r) ==
    /\ SimTurn(r)
    /\ sim[r].pc = "run"
    /\ sim[r].i > Len(AllDates(price_data))
    /\ sim' = [sim EXCEPT ![r].pc = "done"]
    /\ UNCHANGED <<price_data, signals, initial_capital, gen>>
    /\ UNCHANGED labVars
    /\ UNCHANGED mgr
    /\ UNCHANGED met

----------------------------------------------------------------------------
(* Metrics calculator: BacktestEngine._calculate_metrics *)

\* The trading days of a year (line 353)
TradingDays == 252

\* The placeholder win rate 0.6 (line 382)
WinRatePlaceholder == <<6, 10>>

\* The float 0.0 as a ratio
Zero == <<0, 1>>

\* max(a, b) of Python: b when it is greater than a, else a
MaxOf(a, b) == IF RatioLess(a, b) THEN b ELSE a

\* The drawdown loop (lines 356-362): peak is the running peak, drawdown the
\* quotient (peak - value) / peak of a float difference, 0.0 when the peak is
\* not positive.
RECURSIVE MaxDrawdown(_, _, _)
MaxDrawdown(values, peak, max_drawdown) ==
    IF values = <<>> THEN max_drawdown
    ELSE LET value == Head(values)
             new_peak == IF value > peak THEN value ELSE peak
             drawdown == IF new_peak > 0
                         THEN <<Fl(new_peak - value), new_peak>> ELSE Zero
         IN  MaxDrawdown(Tail(values), new_peak, MaxOf(max_drawdown, drawdown))

\* The column of a frame as a list
Column(frame, name) == [j \in 1..Len(frame) |-> frame[j][name]]

\* x - y for two ratios
RatioMinus(x, y) == <<x[1] * y[2] - y[1] * x[2], x[2] * y[2]>>

\* daily_returns (line 366)
DailyReturns(returns) ==
    [j \in 1..(Len(returns) - 1) |-> RatioMinus(returns[j + 1], returns[j])]

\* The Sharpe ratio (lines 365-371): 0.0 for fewer than two returns and for a
\* zero standard deviation, which is daily returns that are all the same;
\* otherwise mean / std * sqrt(252) of the daily returns, left unevaluated.
SharpeRatio(returns) ==
    IF Len(returns) > 1
          /\ \E a, b \in 1..(Len(returns) - 1) :
                ~SameRatio(DailyReturns(returns)[a], DailyReturns(returns)[b])
    THEN [zero |-> FALSE, daily_returns |-> DailyReturns(returns)]
    ELSE [zero |-> TRUE, daily_returns |-> <<>>]

\* The annual return (1 + total_return) ** (252 / days) - 1 (line 353), left
\* unevaluated as base ** exponent - 1; the literal 0.0 is 1 ** 1 - 1.
AnnualReturn(total_return, days) ==
    [base |-> <<total_return[2] + total_return[1], total_return[2]>>,
     exponent |-> <<TradingDays, days>>]

\* A win rate that is the placeholder without a trade too.
WinRateUnguarded(trades) == WinRatePlaceholder

\* win_rate (lines 377-382): 0.0, and the placeholder when there is a trade
WinRate(trades) == IF Len(trades) > 0 THEN WinRatePlaceholder ELSE Zero

\* The result of _calculate_metrics (lines 335-391)
Metrics(portfolio_history, trades) ==
    IF portfolio_history = <<>>
    THEN [total_return |-> Zero,
          annual_return |-> [base |-> <<1, 1>>, exponent |-> <<1, 1>>],
          max_drawdown |-> Zero,
          sharpe_ratio |-> [zero |-> TRUE, daily_returns |-> <<>>],
          total_trades |-> 0,
          win_rate |-> Zero]
    ELSE [total_return |->
              Column(portfolio_history, "return")[Len(portfolio_history)],
          annual_return |->
              AnnualReturn(
                  Column(portfolio_history, "return")[Len(portfolio_history)],
                  Len(portfolio_history)),
          max_drawdown |->
              MaxDrawdown(Column(portfolio_history, "total_value"),
                          Column(portfolio_history, "total_value")[1], Zero),
          sharpe_ratio |-> SharpeRatio(Column(portfolio_history, "return")),
          total_trades |-> Len(trades),
          win_rate |-> WinRate(trades)]

\* No invocation of _calculate_metrics
MetOff == [pc |-> "off", portfolio_history |-> <<>>, trades |-> <<>>,
           result |-> Metrics(<<>>, <<>>)]

\* Steps 4 and 5 of run_backtest (lines 68-74): the frames _simulate_trading
\* returned are passed to _calculate_metrics; a simulation that raised ends
\* the run.
BacktestMetrics ==
    /\ sim[1].pc = "done"
    /\ met.pc = "idle"
    /\ met' = [met EXCEPT !.pc = "start",
                          !.portfolio_history = sim[1].portfolio_history,
                          !.trades = sim[1].trades]
    /\ UNCHANGED <<price_data, signals, initial_capital, sim, gen>>
    /\ UNCHANGED labVars
    /\ UNCHANGED mgr

\* _calculate_metrics (lines 328-391)
CalculateMetrics ==
    /\ met.pc = "start"
    /\ met' = [met EXCEPT !.pc = "returned",
                          !.result = Metrics(met.portfolio_history, met.trades)]
    /\ UNCHANGED <<price_data, signals, initial_capital, sim, gen>>
    /\ UNCHANGED labVars
    /\ UNCHANGED mgr

----------------------------------------------------------------------------
(* Ranking engine: LabelCalculator._execute_rule_calculation and the rules *)

\* The six rules of _execute_rule_calculation, by the order of its branches
\* (lines 99-119: the TOP20 rules of largest rise, largest fall, largest
\* market-cap rise, largest market-cap fall, largest volume and highest
\* turnover), and a rule name it does not know.
Rules == {"gainers", "losers", "mcap_gainers", "mcap_losers", "volume", "turnover"}

RuleNames == Rules \cup {"unknown"}

\* stock_changes[:20] of the per-symbol price-change rule (line 270)
Top20 == 20

\* params.get('top_k', 20) (lines 326, 383 and 424)
DefaultTopK == 20

\* The date range of the requests of the model.
StartDate == <<2023, 1, 1>>

EndDate == <<2023, 12, 31>>

\* label_name = f"{rule}_{start_date}_{end_date}" (line 58)
LabelName(rule, start_date, end_date) == <<rule, start_date, end_date>>

RECURSIVE SortSymbols(_)
\* ORDER BY symbol of a set of symbols
SortSymbols(S) ==
    IF S = {} THEN <<>>
    ELSE LET first == CHOOSE y \in S : \A z \in S \ {y} : SymbolLess(y, z)
         IN  <<first>> \o SortSymbols(S \ {first})

\* All orders of a set: the order data['symbol'].unique() returns is not
\* specified.
UniqueOrders(S) ==
    {q \in [1..Cardinality(S) -> S] :
        \A a, b \in 1..Cardinality(S) : a # b => q[a] # q[b]}

RECURSIVE SumField(_, _)
SumField(rows, field) ==
    IF rows = <<>> THEN 0 ELSE Head(rows)[field] + SumField(Tail(rows), field)

\* The entry of one symbol under the price-change rules (lines 223-250 and
\* 294-317) as a one-element list, or <<>> when it is skipped: fewer than 2 rows, a first or last close that is
\* falsy, a first close that is not positive, or an estimated market cap
\* last_price * mean(volume) under a positive min_market_cap.
PriceChangeEntry(symbol, rows, min_market_cap) ==
    IF Len(rows) < 2 THEN <<>>
    ELSE LET first_price == rows[1].close
             last_price == rows[Len(rows)].close
         IN  IF first_price # 0 /\ last_price # 0 /\ first_price > 0
             THEN IF /\ min_market_cap > 0
                     /\ last_price * SumField(rows, "volume") < min_market_cap * Len(rows)
                  THEN <<>>
                  ELSE <<[symbol |-> symbol,
                          change_pct |-> <<(last_price - first_price) * 100, first_price>>,
                          avg_volume |-> <<SumField(rows, "volume"), Len(rows)>>,
                          turnover_rate |-> <<>>]>>
             ELSE <<>>

\* The entry of one symbol under the volume rule (lines 355-374).
VolumeEntry(symbol, rows, min_market_cap) ==
    LET total_volume == SumField(rows, "volume")
        last_price == rows[Len(rows)].close
    IN  IF total_volume # 0 /\ last_price # 0
        THEN IF /\ min_market_cap > 0
                /\ last_price * total_volume < min_market_cap * Len(rows)
             THEN <<>>
             ELSE <<[symbol |-> symbol, change_pct |-> <<>>,
                     avg_volume |-> <<total_volume, Len(rows)>>,
                     turnover_rate |-> <<>>]>>
        ELSE <<>>

\* The entry of one symbol under the turnover rule (lines 401-415):
\* turnover_rate = mean(volume) / mean(close).
TurnoverEntry(symbol, rows) ==
    LET total_volume == SumField(rows, "volume")
        total_close == SumField(rows, "close")
    IN  IF total_volume # 0 /\ total_close > 0
        THEN <<[symbol |-> symbol, change_pct |-> <<>>,
                avg_volume |-> <<total_volume, Len(rows)>>,
                turnover_rate |-> <<total_volume, total_close>>]>>
        ELSE <<>>

\* The entries of the symbols in loop order, skipped symbols left out.
RECURSIVE Entries(_, _, _, _)
Entries(kind, order, store, min_market_cap) ==
    IF order = <<>> THEN <<>>
    ELSE LET symbol == Head(order)
             e == CASE kind = "change" ->
                          PriceChangeEntry(symbol, store[symbol], min_market_cap)
                    [] kind = "volume" ->
                          VolumeEntry(symbol, store[symbol], min_market_cap)
                    [] kind = "turnover" -> TurnoverEntry(symbol, store[symbol])
         IN  e \o Entries(kind, Tail(order), store, min_market_cap)

\* x sorts strictly before y: list.sort(key=..., reverse=...)
SortsBefore(x, y, field, reverse) ==
    IF reverse THEN RatioLess(y[field], x[field]) ELSE RatioLess(x[field], y[field])

RECURSIVE InsertStable(_, _, _, _)
InsertStable(sorted, x, field, reverse) ==
    IF sorted = <<>> THEN <<x>>
    ELSE IF SortsBefore(x, Head(sorted), field, reverse)
         THEN <<x>> \o sorted
         ELSE <<Head(sorted)>> \o InsertStable(Tail(sorted), x, field, reverse)

\* list.sort is stable, with and without reverse.
RECURSIVE StableSort(_, _, _)
StableSort(entries, field, reverse) ==
    IF entries = <<>> THEN <<>>
    ELSE InsertStable(StableSort(SubSeq(entries, 1, Len(entries) - 1), field, reverse),
                      entries[Len(entries)], field, reverse)

\* entries[:n]
Prefix(entries, n) == SubSeq(entries, 1, IF n < Len(entries) THEN n ELSE Len(entries))

\* The reverse flag of the sort of the price-change rules (lines 269, 325)
SortReverse(ascending) == ~ascending

\* _calculate_price_change_top_optimized (lines 201-274): the symbols in the
\* order of _get_available_symbols, the first 20 of the sorted entries.
PriceChangeTopOptimized(symbols, store, ascending, params) ==
    Prefix(StableSort(Entries("change", symbols, store, params.min_market_cap),
                      "change_pct", SortReverse(ascending)),
           Top20)

\* The symbols that have rows in the frame _load_price_data returns.
LoadedSymbols(store) == {y \in DOMAIN store : store[y] # <<>>}

\* params.get('top_k', 20)
TopK(params) == IF params.top_k = <<>> THEN DefaultTopK ELSE params.top_k[1]

\* _calculate_price_change_top (lines 276-328) on the loaded frame: the
\* results over the orders unique() can return.
PriceChangeTop(store, ascending, params) ==
    {Prefix(StableSort(Entries("change", order, store, params.min_market_cap),
                       "change_pct", SortReverse(ascending)),
            TopK(params)) : order \in UniqueOrders(LoadedSymbols(store))}

\* _calculate_volume_top (lines 342-385)
VolumeTop(store, params) ==
    {Prefix(StableSort(Entries("volume", order, store, params.min_market_cap),
                       "avg_volume", TRUE),
            TopK(params)) : order \in UniqueOrders(LoadedSymbols(store))}

\* _calculate_turnover_rate_top (lines 387-426)
TurnoverTop(store, params) ==
    {Prefix(StableSort(Entries("turnover", order, store, 0),
                       "turnover_rate", TRUE),
            TopK(params)) : order \in UniqueOrders(LoadedSymbols(store))}

Raised == [ok |-> FALSE, data |-> <<>>]

Returned(S) == {[ok |-> TRUE, data |-> d] : d \in S}

\* A dispatch whose last branch returns an empty ranking instead of raising.
RuleOutcomesLenient(rule, store, params) ==
    IF DOMAIN store = {} THEN {Raised}
    ELSE IF rule = "gainers"
    THEN Returned({PriceChangeTopOptimized(SortSymbols(DOMAIN store), store,
                                           TRUE, params)})
    ELSE IF rule = "losers"
    THEN Returned({PriceChangeTopOptimized(SortSymbols(DOMAIN store), store,
                                           FALSE, params)})
    ELSE IF rule \in {"mcap_gainers", "mcap_losers", "volume", "turnover"}
    THEN IF LoadedSymbols(store) = {} THEN {Raised}
         ELSE IF rule = "mcap_gainers" THEN Returned(PriceChangeTop(store, TRUE, params))
         ELSE IF rule = "mcap_losers" THEN Returned(PriceChangeTop(store, FALSE, params))
         ELSE IF rule = "volume" THEN Returned(VolumeTop(store, params))
         ELSE Returned(TurnoverTop(store, params))
    ELSE Returned({<<>>})

\* _execute_rule_calculation (lines 88-121): the outcomes of a request, each
\* a list of entries or a raised exception.  No symbol in the store raises;
\* an unknown rule raises; a rule that loads the whole frame raises when the
\* frame is the column-less pl.DataFrame() of an empty result (data['symbol']).
RuleOutcomes(rule, store, params) ==
    IF DOMAIN store = {} THEN {Raised}
    ELSE IF rule = "gainers"
    THEN Returned({PriceChangeTopOptimized(SortSymbols(DOMAIN store), store,
                                           TRUE, params)})
    ELSE IF rule = "losers"
    THEN Returned({PriceChangeTopOptimized(SortSymbols(DOMAIN store), store,
                                           FALSE, params)})
    ELSE IF rule \in {"mcap_gainers", "mcap_losers", "volume", "turnover"}
    THEN IF LoadedSymbols(store) = {} THEN {Raised}
         ELSE IF rule = "mcap_gainers" THEN Returned(PriceChangeTop(store, TRUE, params))
         ELSE IF rule = "mcap_losers" THEN Returned(PriceChangeTop(store, FALSE, params))
         ELSE IF rule = "volume" THEN Returned(VolumeTop(store, params))
         ELSE Returned(TurnoverTop(store, params))
    ELSE {Raised}

\* The rules that load the rows of the window as one frame (lines 103-119).
FrameRules == {"mcap_gainers", "mcap_losers", "volume", "turnover"}

\* The rows _load_price_data_for_symbol returns per symbol (lines 163-185):
\* when the query of a symbol raises, the exception is logged and the empty
\* frame is returned, as for a symbol without rows in the window.
SymbolFrames(store, faults) ==
    [y \in DOMAIN store |-> IF y \in faults THEN <<>> ELSE store[y]]

\* _execute_rule_calculation when queries raise.  A raising symbol-list
\* query makes _get_available_symbols return [] (lines 197-199), as for a
\* store without symbols; the per-symbol rules read SymbolFrames; the
\* exception of a raising _load_price_data (line 133) is not caught.
FetchOutcomes(rule, store, params, faults) ==
    IF "list" \in faults THEN RuleOutcomes(rule, <<>>, params)
    ELSE IF rule \in FrameRules /\ "frame" \in faults THEN {Raised}
    ELSE IF rule \in {"gainers", "losers"}
    THEN RuleOutcomes(rule, SymbolFrames(store, faults), params)
    ELSE RuleOutcomes(rule, store, params)

\* The loop of a rule passes a symbol over with "continue", before its
\* notification: too few rows under the price-change rules (lines 223-226 and
\* 294-295), an estimated market cap under a positive min_market_cap (lines
\* 240-242, 308-309 and 366-367).
Skipped(kind, rows, min_market_cap) ==
    CASE kind = "change" ->
            \/ Len(rows) < 2
            \/ /\ rows[1].close > 0 /\ rows[Len(rows)].close # 0
               /\ min_market_cap > 0
               /\ rows[Len(rows)].close * SumField(rows, "volume")
                     < min_market_cap * Len(rows)
      [] kind = "volume" ->
            /\ SumField(rows, "volume") # 0 /\ rows[Len(rows)].close # 0
            /\ min_market_cap > 0
            /\ rows[Len(rows)].close * SumField(rows, "volume")
                  < min_market_cap * Len(rows)
      [] kind = "turnover" -> FALSE

\* The percent values a loop over the symbols notifies: base +
\* int(done / total * span) after each symbol that is not passed over, done
\* counting the symbols so far (lines 252-257, 320, 377 and 418).
RECURSIVE LoopProgress(_, _, _, _, _, _, _, _)
LoopProgress(kind, order, store, min_market_cap, base, span, done, total) ==
    IF order = <<>> THEN <<>>
    ELSE (IF Skipped(kind, store[Head(order)], min_market_cap) THEN <<>>
          ELSE <<base + ((done + 1) * span) \div total>>)
         \o LoopProgress(kind, Tail(order), store, min_market_cap, base, span,
                         done + 1, total)

\* The loop of a rule that loads the frame: its kind and its sort.
KindOf(rule) ==
    CASE rule \in {"mcap_gainers", "mcap_losers"} -> "change"
      [] rule = "volume" -> "volume"
      [] rule = "turnover" -> "turnover"

\* The result of a rule that loads the frame when unique() returns the
\* symbols in the given order (lines 288-328, 351-385 and 397-426).
FrameResult(rule, order, store, params) ==
    Prefix(StableSort(Entries(KindOf(rule), order, store,
                              IF rule = "turnover" THEN 0 ELSE params.min_market_cap),
                      CASE KindOf(rule) = "change" -> "change_pct"
                        [] KindOf(rule) = "volume" -> "avg_volume"
                        [] KindOf(rule) = "turnover" -> "turnover_rate",
                      IF rule = "mcap_gainers" THEN SortReverse(TRUE)
                      ELSE IF rule = "mcap_losers" THEN SortReverse(FALSE)
                      ELSE TRUE),
           TopK(params))

\* The percent values _execute_rule_calculation notifies on the way to an
\* outcome: 30, then 40 once symbols were found (lines 88-96), 50 before the
\* frame is loaded (lines 105-117), then those of the loop of the rule.
RuleProgress(rule, store, params, faults, outcome) ==
    IF "list" \in faults \/ DOMAIN store = {} THEN {<<30>>}
    ELSE IF rule \in {"gainers", "losers"}
    THEN {<<30, 40>> \o LoopProgress("change", SortSymbols(DOMAIN store),
                                     SymbolFrames(store, faults),
                                     params.min_market_cap, 40, 50, 0,
                                     Cardinality(DOMAIN store))}
    ELSE IF rule \in FrameRules
    THEN IF ~outcome.ok THEN {<<30, 40, 50>>}
         ELSE {<<30, 40, 50>> \o LoopProgress(KindOf(rule), order, store,
                                              params.min_market_cap, 50, 40, 0,
                                              Cardinality(LoadedSymbols(store))) :
                  order \in {o \in UniqueOrders(LoadedSymbols(store)) :
                                FrameResult(rule, o, store, params) = outcome.data}}
    ELSE {<<30, 40>>}

\* stock.get('change_pct', stock.get('avg_volume', stock.get('turnover_rate', 0)))
\* (line 459)
Score(stock) ==
    IF stock.change_pct # <<>> THEN stock.change_pct
    ELSE IF stock.avg_volume # <<>> THEN stock.avg_volume
    ELSE IF stock.turnover_rate # <<>> THEN stock.turnover_rate
    ELSE <<0, 1>>

----------------------------------------------------------------------------
(* Label computation: LabelCalculator.calculate_label and the store *)

LabRuns == {1, 2}

\* faults names the queries of the run on which db.execute raises: "list" for
\* the symbol list, "frame" for the rows of the window, a symbol for the rows
\* of that symbol.  progress lists the percent values of the notifications
\* the run has sent.
LabIdle(rule) ==
    [pc |-> "idle", rule |-> rule, params |-> [top_k |-> <<>>, min_market_cap |-> 0],
     label_data |-> <<>>, prior |-> {}, faults |-> {}, progress |-> <<>>]

LabOffRun == [LabIdle("unknown") EXCEPT !.pc = "off"]

\* The rows of label_stocks of one label.
MembersOf(name) == {m \in label_stocks : m.label_name = name}

\* _ensure_db through get_labels_list, get_label_stocks or delete_label
EnsureDb ==
    /\ calc_db = "None"
    /\ \E r \in LabRuns : lab[r].pc # "off"
    /\ calc_db' = "manager"
    /\ UNCHANGED <<prices_daily, labels, label_stocks, tasks, lab>>
    /\ UNCHANGED btVars
    /\ UNCHANGED mgr

\* The except branch of calculate_label (lines 72-76), after the
\* notifications sent: the task record is marked failed, send_task_failed
\* notifies with percent 0 (websocket.py line 111) and the exception is
\* raised again.
Fail(r, sent) ==
    /\ lab' = [lab EXCEPT ![r].pc = "failed",
                          ![r].progress = @ \o sent \o <<0>>]
    /\ tasks' = [tasks EXCEPT ![r] = "failed"]

\* The invocations that have ended.
Ended == {q \in LabRuns : lab[q].pc \in {"done", "failed", "cancelled"}}

\* calculate_label up to the rule calculation (lines 42-50).  self.db is
\* used without _ensure_db: while it is None, _create_task_record raises, and
\* so does _update_task_status in the except branch, before any notification.  The record of the run
\* keeps, in prior, the invocations that ended before this one was called.
CreateTaskRecord(r, params) ==
    /\ lab[r].pc = "idle"
    /\ IF calc_db = "None"
       THEN /\ lab' = [lab EXCEPT ![r].pc = "failed", ![r].params = params,
                                  ![r].prior = Ended]
            /\ UNCHANGED tasks
       ELSE /\ lab' = [lab EXCEPT ![r].pc = "created", ![r].params = params,
                                  ![r].prior = Ended, ![r].progress = <<10>>]
            /\ tasks' = [tasks EXCEPT ![r] = "queued"]
    /\ UNCHANGED <<prices_daily, labels, label_stocks, calc_db>>
    /\ UNCHANGED btVars
    /\ UNCHANGED mgr

\* _execute_rule_calculation (line 53)
Calculate(r) ==
    /\ lab[r].pc = "created"
    /\ \E outcome \in FetchOutcomes(lab[r].rule, prices_daily, lab[r].params,
                                     lab[r].faults) :
          \E sent \in RuleProgress(lab[r].rule, prices_daily, lab[r].params,
                                   lab[r].faults, outcome) :
             IF ~outcome.ok
             THEN Fail(r, sent)
             ELSE /\ lab' = [lab EXCEPT ![r].pc = "calculated",
                                        ![r].label_data = outcome.data,
                                        ![r].progress = @ \o sent]
                  /\ UNCHANGED tasks
    /\ UNCHANGED <<prices_daily, labels, label_stocks, calc_db>>
    /\ UNCHANGED btVars
    /\ UNCHANGED mgr

\* The INSERTs INTO label_stocks of the loop of lines 451-462, from member i
\* on: (label_name, symbol) is the primary key, the INSERT of a symbol the
\* label has a row for raises and leaves the rows inserted before it.
RECURSIVE InsertStocks(_, _, _, _)
InsertStocks(name, label_data, i, stocks) ==
    IF i > Len(label_data) THEN [ok |-> TRUE, label_stocks |-> stocks]
    ELSE IF \E m \in stocks : m.label_name = name /\ m.symbol = label_data[i].symbol
    THEN [ok |-> FALSE, label_stocks |-> stocks]
    ELSE InsertStocks(name, label_data, i + 1,
            stocks \cup {[label_name |-> name, symbol |-> label_data[i].symbol,
                          rank |-> i, score |-> Score(label_data[i])]})

\* _save_label_data (lines 439-462): the notification of 90, DELETE FROM labels, INSERT INTO labels,
\* then one INSERT INTO label_stocks per member; label_stocks is not cleared.
\* Every statement is its own transaction.  db.execute never suspends (the
\* lock is free whenever it is asked for, conn.execute is synchronous), so
\* the statements run without another coroutine in between.
SaveLabelData(r) ==
    /\ lab[r].pc = "calculated"
    /\ LET name == LabelName(lab[r].rule, StartDate, EndDate)
           inserted == InsertStocks(name, lab[r].label_data, 1, label_stocks)
       IN  /\ labels' = {l \in labels : l.name # name}
                           \cup {[name |-> name, rule |-> lab[r].rule]}
           /\ label_stocks' = inserted.label_stocks
           /\ IF inserted.ok
              THEN /\ lab' = [lab EXCEPT ![r].pc = "saved",
                                         ![r].progress = @ \o <<90>>]
                   /\ UNCHANGED tasks
              ELSE Fail(r, <<90>>)
    /\ UNCHANGED <<prices_daily, calc_db>>
    /\ UNCHANGED btVars
    /\ UNCHANGED mgr

\* send_task_completed, which notifies with percent 100 (websocket.py line
\* 106), and the return (lines 61-70)
Complete(r) ==
    /\ lab[r].pc = "saved"
    /\ lab' = [lab EXCEPT ![r].pc = "done", ![r].progress = @ \o <<100>>]
    /\ UNCHANGED <<prices_daily, labels, label_stocks, tasks, calc_db>>
    /\ UNCHANGED btVars
    /\ UNCHANGED mgr

\* The task running calculate_label is cancelled where it can be suspended,
\* in a send_task_update (lines 50, 439 and 61): CancelledError is no
\* Exception, the except branch does not run.
Cancel(r) ==
    /\ lab[r].pc \in {"created", "calculated", "saved"}
    /\ lab' = [lab EXCEPT ![r].pc = "cancelled"]
    /\ UNCHANGED <<prices_daily, labels, label_stocks, tasks, calc_db>>
    /\ UNCHANGED btVars
    /\ UNCHANGED mgr

----------------------------------------------------------------------------
(* Task manager: core/task_manager.py.  An asyncio task is known by the      *)
(* number of its creation; 0 stands for no task.                            *)

TaskIds == {"a", "b"}

\* TaskManager.__init__ (lines 16-19): no task, three empty dicts.  created
\* is the list of the asyncio tasks, cleaned the list of the cleanup
\* callbacks that were run (the task that registered it, the task whose done
\* callback ran it), result the value of the last cancel_task.
MgrOff ==
    [created |-> <<>>,
     _running_tasks |-> [id \in TaskIds |-> 0],
     _task_metadata |-> [id \in TaskIds |-> 0],
     _cleanup_callbacks |-> [id \in TaskIds |-> 0],
     cleaned |-> <<>>,
     result |-> "none"]

\* task.done()
Done(task) == task.state # "pending"

\* existing_task.cancel() of create_task (lines 39-43): a cancellation is
\* requested of the task registered under the id when it is not done.
CancelExisting(created, existing) ==
    IF existing # 0 /\ ~Done(created[existing])
    THEN [created EXCEPT ![existing].must_cancel = TRUE]
    ELSE created

\* self._cleanup_callbacks[task_id] = cleanup_callback, when one is given
\* (lines 56-57)
RegisterCallback(callbacks, task_id, cleanup_callback, n) ==
    IF cleanup_callback THEN [callbacks EXCEPT ![task_id] = n] ELSE callbacks

\* create_task (lines 39-63), which awaits nothing: the task registered under
\* the id is cancelled when it is not done, the new task takes its place in
\* _running_tasks and _task_metadata, and its done callback is added.
\* replaced is the task that was running under the id, if any.
CreateTask(task_id, cleanup_callback) ==
    /\ Len(mgr.created) < MaxTasks
    /\ mgr' = [mgr EXCEPT
          !.created =
              Append(CancelExisting(mgr.created, mgr._running_tasks[task_id]),
                     [task_id |-> task_id, state |-> "pending",
                      must_cancel |-> FALSE, called_back |-> FALSE,
                      cleanup_callback |-> cleanup_callback,
                      replaced |->
                          IF mgr._running_tasks[task_id] # 0
                             /\ ~Done(mgr.created[mgr._running_tasks[task_id]])
                          THEN mgr._running_tasks[task_id] ELSE 0]),
          !._running_tasks[task_id] = Len(mgr.created) + 1,
          !._task_metadata[task_id] = Len(mgr.created) + 1,
          !._cleanup_callbacks =
              RegisterCallback(mgr._cleanup_callbacks, task_id,
                               cleanup_callback, Len(mgr.created) + 1)]
    /\ UNCHANGED btVars
    /\ UNCHANGED labVars

\* The coroutine of task n ends: it returns or raises, or, when a
\* cancellation was requested, it is cancelled at its await (a coroutine may
\* also catch the CancelledError and end in another way).  asyncio schedules
\* the done callback for a later turn of the event loop.
TaskEnds(n) ==
    /\ n \in 1..Len(mgr.created)
    /\ mgr.created[n].state = "pending"
    /\ \E outcome \in {"completed", "failed", "cancelled"} :
          /\ outcome = "cancelled" => mgr.created[n].must_cancel
          /\ mgr' = [mgr EXCEPT !.created[n].state = outcome]
    /\ UNCHANGED btVars
    /\ UNCHANGED labVars

\* _cleanup_task (lines 83-100) on the dicts: the callback registered under
\* the id is popped and run, and the entries of the id are removed.
CleanupTask(m, task_id, n) ==
    [m EXCEPT
       !.cleaned = IF m._cleanup_callbacks[task_id] # 0
                   THEN Append(@, <<m._cleanup_callbacks[task_id], n>>) ELSE @,
       !._cleanup_callbacks[task_id] = 0,
       !._running_tasks[task_id] = 0,
       !._task_metadata[task_id] = 0]

\* _task_done_callback (lines 65-81) of task n, called by the event loop with
\* the task_id the lambda of line 60 closed over.
TaskDoneCallback(n) ==
    /\ n \in 1..Len(mgr.created)
    /\ Done(mgr.created[n])
    /\ ~mgr.created[n].called_back
    /\ mgr' = CleanupTask([mgr EXCEPT !.created[n].called_back = TRUE],
                          mgr.created[n].task_id, n)
    /\ UNCHANGED btVars
    /\ UNCHANGED labVars

\* get_task_status (lines 102-125): "None" for an id without an entry
GetTaskStatus(task_id) ==
    IF mgr._running_tasks[task_id] = 0 THEN "None"
    ELSE IF ~Done(mgr.created[mgr._running_tasks[task_id]]) THEN "running"
    ELSE mgr.created[mgr._running_tasks[task_id]].state

\* cancel_task (lines 136-150) up to its await: False for an id without an
\* entry or with a task that is done, else the cancellation is requested
\* and True is returned once the task has ended.
CancelTask(task_id) ==
    /\ IF mgr._running_tasks[task_id] # 0
          /\ ~Done(mgr.created[mgr._running_tasks[task_id]])
       THEN mgr' = [mgr EXCEPT
                      !.created[mgr._running_tasks[task_id]].must_cancel = TRUE,
                      !.result = "True"]
       ELSE mgr' = [mgr EXCEPT !.result = "False"]
    /\ UNCHANGED btVars
    /\ UNCHANGED labVars

----------------------------------------------------------------------------
(* Inputs of the simulator *)

\* The label computation at rest.
LabOff ==
    /\ prices_daily = <<>>
    /\ labels = {}
    /\ label_stocks = {}
    /\ tasks = [r \in LabRuns |-> "none"]
    /\ calc_db = "None"
    /\ lab = [r \in LabRuns |-> LabOffRun]

Dates == {DateUniverse[j] : j \in 1..MaxDates}

\* Price panels: unique per (date, symbol), positive closes, at least one row.
Panels ==
    UNION {[K -> 1..MaxSimClose] : K \in (SUBSET (Dates \X Symbols)) \ {{}}}

\* The initial capitals: the floats among the multiples of CapitalStep, and
\* a capital below the price of a share.
Capitals ==
    {c \in 0..MaxCapital : Fl(c) = c /\ (c % CapitalStep = 0 \/ c = SmallCapital)}

\* Sequences without repetition over a set of symbols, of length at most n.
SymbolLists(S, n) ==
    {q \in UNION {[1..k -> S] : k \in 0..n} :
        \A a, b \in 1..Len(q) : a # b => q[a] # q[b]}

\* The signal lists a date of the panel can carry: rows for distinct quoted
\* symbols, each with a weight 1/wden and the symbol's close as its price.
DateSignalLists(pd, date) ==
    LET quoted == {y \in Symbols : HasQuote(pd, date, y)}
    IN  UNION {
          {[j \in 1..Len(q) |->
              [date |-> date, symbol |-> q[j], signal |-> "BUY",
               wden |-> w[j], price |-> pd[<<date, q[j]>>]]] :
             w \in [1..Len(q) -> WeightDens]} :
          q \in SymbolLists(quoted, MaxSignalsPerDate)}

RECURSIVE ConcatByDate(_, _)
ConcatByDate(f, dates) ==
    IF dates = <<>> THEN <<>>
    ELSE f[Head(dates)] \o ConcatByDate(f, Tail(dates))

\* Signal frames over a panel: per date of the panel a list of rows, dates
\* ascending; the empty frame included.
SignalFrames(pd) ==
    LET ds == {k[1] : k \in DOMAIN pd}
        perDate == {f \in [ds -> UNION {DateSignalLists(pd, d) : d \in ds}] :
                       \A d \in ds : f[d] \in DateSignalLists(pd, d)}
    IN  {ConcatByDate(f, SortDates(ds)) : f \in perDate}

SimInit ==
    /\ price_data \in Panels
    /\ signals \in SignalFrames(price_data)
    /\ initial_capital \in Capitals
    /\ sim = [r \in SimRuns |-> SimStart]
    /\ gen = GenOff
    /\ LabOff
    /\ mgr = MgrOff
    /\ met = MetOff

SimNext == \E r \in SimRuns : SimStep(r) \/ SimReturn(r)

SpecSim == SimInit /\ [][SimNext]_vars

----------------------------------------------------------------------------
(* Inputs of the signal generator *)

PanelDates == {DateUniverse[j] : j \in 1..MaxPanelDates}

SignalPanels ==
    UNION {[K -> 1..MaxClose] : K \in (SUBSET (PanelDates \X Symbols)) \ {{}}}

SimOff == [r \in SimRuns |-> [SimStart EXCEPT !.pc = "off", !.cash = 0]]

SigInit ==
    /\ price_data \in SignalPanels
    /\ signals = <<>>
    /\ initial_capital = 0
    /\ sim = SimOff
    /\ gen \in [pc : {"start"}, strategy_type : StrategyTypes,
                rebalance_frequency : Frequencies, top_k : 1..MaxTopK,
                lookback_period : 1..MaxLookback, rebalance_dates : {<<>>},
                k : {1}]
    /\ LabOff
    /\ mgr = MgrOff
    /\ met = MetOff

SigNext == GenerateSignals \/ MomentumStep \/ MeanReversionStep \/ SignalsReturn

SpecSignal == SigInit /\ [][SigNext]_vars

\* Panels of one symbol at one close over any dates of the calendar of the
\* model: the inputs of _get_rebalance_dates.
DatePanels ==
    {[k \in D \X {"AAA"} |-> 1] :
        D \in (SUBSET {DateUniverse[j] : j \in 1..Len(DateUniverse)}) \ {{}}}

DatesInit ==
    /\ price_data \in DatePanels
    /\ signals = <<>>
    /\ initial_capital = 0
    /\ sim = SimOff
    /\ gen \in [pc : {"start"}, strategy_type : StrategyTypes,
                rebalance_frequency : Frequencies, top_k : 1..MaxTopK,
                lookback_period : 1..MaxLookback, rebalance_dates : {<<>>},
                k : {1}]
    /\ LabOff
    /\ mgr = MgrOff
    /\ met = MetOff

SpecDates == DatesInit /\ [][SigNext]_vars

----------------------------------------------------------------------------
(* A backtest run through the simulator and the metrics calculator, and the *)
(* metrics calculator over any frames                                       *)

\* Panels over the panel dates: AAA at any close, BBB at a close of 1.
BacktestPanels ==
    {pd \in UNION {[K -> 1..MaxSimClose] :
                     K \in (SUBSET (PanelDates \X Symbols)) \ {{}}} :
        \A k \in DOMAIN pd : k[2] = "BBB" => pd[k] = 1}

\* The signal frames of a panel that buy AAA only: on each date AAA has a
\* quote, no signal or one signal at the close.
BacktestFrames(pd) ==
    {ConcatByDate(f, SortDates({k[1] : k \in DOMAIN pd})) :
        f \in {g \in [{k[1] : k \in DOMAIN pd} ->
                        {<<>>} \cup
                        {<<[date |-> d, symbol |-> "AAA", signal |-> "BUY",
                            wden |-> w, price |-> c]>> :
                           d \in PanelDates, w \in WeightDens,
                           c \in 1..MaxSimClose}] :
                  \A d \in DOMAIN g :
                      g[d] # <<>> =>
                          /\ g[d][1].date = d
                          /\ HasQuote(pd, d, "AAA")
                          /\ g[d][1].price = pd[<<d, "AAA">>]}}

\* run_backtest from step 4 on (lines 68-74): one simulation, then the
\* metrics of its frames.
BacktestInit ==
    /\ price_data \in BacktestPanels
    /\ signals \in BacktestFrames(price_data)
    /\ initial_capital \in Capitals
    /\ sim = [r \in SimRuns |-> IF r = 1 THEN SimStart ELSE SimOff[r]]
    /\ gen = GenOff
    /\ met = [MetOff EXCEPT !.pc = "idle"]
    /\ LabOff
    /\ mgr = MgrOff

\* The total values of the frames: the floats from 0 to MaxValue.
MetricValues == {v \in 0..MaxValue : Fl(v) = v}

\* Portfolio histories: total values with their returns on a capital.
Histories ==
    UNION {{[j \in 1..n |->
               [total_value |-> values[j], return |-> <<values[j] - c, c>>]] :
             values \in [1..n -> MetricValues], c \in Capitals \ {0}} :
          n \in 0..MaxHistory}

\* Trade ledgers
Ledgers ==
    UNION {[1..n -> [action : {"BUY", "SELL"}]] : n \in 0..MaxTrades}

\* _calculate_metrics over any frames; without a row of history there is no
\* trade.
MetricsInit ==
    /\ price_data = <<>>
    /\ signals = <<>>
    /\ initial_capital = 0
    /\ sim = SimOff
    /\ gen = GenOff
    /\ met \in {[pc |-> "start", portfolio_history |-> h, trades |-> t,
                  result |-> Metrics(<<>>, <<>>)] :
                    h \in Histories,
                    t \in Ledgers}
    /\ met.portfolio_history = <<>> => met.trades = <<>>
    /\ LabOff
    /\ mgr = MgrOff

MetricsNext ==
    \/ \E r \in {1} : SimStep(r) \/ SimReturn(r)
    \/ BacktestMetrics
    \/ CalculateMetrics

SpecMetrics == (BacktestInit \/ MetricsInit) /\ [][MetricsNext]_vars

----------------------------------------------------------------------------
(* The task manager under any calls *)

TasksInit ==
    /\ mgr = MgrOff
    /\ price_data = <<>>
    /\ signals = <<>>
    /\ initial_capital = 0
    /\ sim = SimOff
    /\ gen = GenOff
    /\ met = MetOff
    /\ prices_daily = <<>>
    /\ labels = {}
    /\ label_stocks = {}
    /\ tasks = [r \in LabRuns |-> "none"]
    /\ calc_db = "None"
    /\ lab = [r \in LabRuns |-> LabOffRun]

TasksNext ==
    \/ \E task_id \in TaskIds, cleanup_callback \in BOOLEAN :
          CreateTask(task_id, cleanup_callback)
    \/ \E n \in 1..MaxTasks : TaskEnds(n)
    \/ \E n \in 1..MaxTasks : TaskDoneCallback(n)
    \/ \E task_id \in TaskIds : CancelTask(task_id)

SpecTasks == TasksInit /\ [][TasksNext]_vars

----------------------------------------------------------------------------
(* Inputs of the label computation *)

\* params: top_k absent (<<>>) or given (<<k>>), min_market_cap 0 or MinCap.
ParamSets ==
    [top_k : {<<>>} \cup {<<k>> : k \in 1..MaxTopK}, min_market_cap : {0, MinCap}]

\* The rows a symbol can have in the window.
PriceRows == [close : 0..MaxClose, volume : 1..MaxVolume]

SeriesSet(rows, n) == UNION {[1..k -> rows] : k \in 0..n}

\* Price stores: every subset of the symbols, each with up to MaxRows rows.
RankStores ==
    UNION {[S -> SeriesSet(PriceRows, MaxRows)] : S \in SUBSET Symbols}

BtOff ==
    /\ price_data = <<>>
    /\ signals = <<>>
    /\ initial_capital = 0
    /\ sim = SimOff
    /\ gen = GenOff
    /\ met = MetOff

\* One computation over any price store.
RankInit ==
    /\ prices_daily \in RankStores
    /\ labels = {}
    /\ label_stocks = {}
    /\ tasks = [r \in LabRuns |-> "none"]
    /\ calc_db = "None"
    /\ \E rule \in RuleNames :
          lab = [r \in LabRuns |-> IF r = 1 THEN LabIdle(rule) ELSE LabOffRun]
    /\ BtOff
    /\ mgr = MgrOff

LabNext ==
    \/ EnsureDb
    \/ \E r \in LabRuns :
          \/ \E params \in ParamSets : CreateTaskRecord(r, params)
          \/ Calculate(r)
          \/ SaveLabelData(r)
          \/ Complete(r)
          \/ Cancel(r)

SpecRank == RankInit /\ [][LabNext]_vars

\* The series of the stores of concurrent computations: no row in the
\* window, a flat low close with high volume, a rising close with lower
\* volume.
LabelSeries ==
    { <<>>,
      <<[close |-> 1, volume |-> 3], [close |-> 1, volume |-> 3]>>,
      <<[close |-> 1, volume |-> 2], [close |-> 2, volume |-> 2]>> }

LabelStores == UNION {[S -> LabelSeries] : S \in SUBSET Symbols}

\* Two computations of one rule, hence of one label name.
LabelInit ==
    /\ prices_daily \in LabelStores
    /\ labels = {}
    /\ label_stocks = {}
    /\ tasks = [r \in LabRuns |-> "none"]
    /\ calc_db = "None"
    /\ \E rule \in RuleNames : lab = [r \in LabRuns |-> LabIdle(rule)]
    /\ BtOff
    /\ mgr = MgrOff

SpecLabel == LabelInit /\ [][LabNext]_vars

\* The queries that can raise.
FaultNames == Symbols \cup {"list", "frame"}

\* One computation over a store some of whose queries raise.
FetchInit ==
    /\ prices_daily \in LabelStores
    /\ labels = {}
    /\ label_stocks = {}
    /\ tasks = [r \in LabRuns |-> "none"]
    /\ calc_db = "None"
    /\ \E rule \in RuleNames, faults \in SUBSET FaultNames :
          lab = [r \in LabRuns |->
                    IF r = 1 THEN [LabIdle(rule) EXCEPT !.faults = faults]
                    ELSE LabOffRun]
    /\ BtOff
    /\ mgr = MgrOff

SpecFetch == FetchInit /\ [][LabNext]_vars

\* A computation of any rule next to one of a rule the engine does not know.
ConfigInit ==
    /\ prices_daily \in LabelStores
    /\ labels = {}
    /\ label_stocks = {}
    /\ tasks = [r \in LabRuns |-> "none"]
    /\ calc_db = "None"
    /\ \E rule \in RuleNames :
          lab = [r \in LabRuns |-> IF r = 1 THEN LabIdle(rule) ELSE LabIdle("unknown")]
    /\ BtOff
    /\ mgr = MgrOff

\* A signal generation, or label computations with an unknown rule among them.
SpecConfig == (SigInit \/ ConfigInit) /\ [][SigNext \/ LabNext]_vars

----------------------------------------------------------------------------
(* Properties of the portfolio simulator *)

\* The last row of portfolio_history of run r.
LastRow(r) == sim[r].portfolio_history[Len(sim[r].portfolio_history)]

\* Run r has recorded a row and has not raised.
HasRow(r) == sim[r].pc \in {"run", "done"} /\ sim[r].portfolio_history # <<>>

\* C1: the cash recorded in every PortfolioState row is >= 0.
C1_CashNonNegative ==
    \A r \in SimRuns :
        sim[r].pc # "off" =>
            \A j \in 1..Len(sim[r].portfolio_history) :
                sim[r].portfolio_history[j].cash >= 0

\* The holdings of run r that have a quote on the date of its last row.
QuotedHoldings(r) ==
    {j \in 1..Len(sim[r].current_positions) :
        HasQuote(price_data, LastRow(r).date, sim[r].current_positions[j][1])}

\* The float sum of shares * close over a set of holdings of run r.
RECURSIVE HeldValue(_, _, _)
HeldValue(r, J, total) ==
    IF J = {} THEN total
    ELSE LET j == CHOOSE x \in J : \A y \in J : x <= y
             holding == sim[r].current_positions[j]
         IN  HeldValue(r, J \ {j},
                Fl(total + Fl(holding[2] * price_data[<<LastRow(r).date, holding[1]>>])))

\* C2: in every PortfolioState row total_value is the float sum of cash and
\* positions_value, and positions_value is the sum of shares * close of that
\* date over the held symbols, a held symbol without a quote counting 0.  The
\* row is the last one: every row is the last one when it is recorded.
C2_TotalValueIsCashPlusPositions ==
    \A r \in SimRuns :
        HasRow(r) =>
            /\ LastRow(r).total_value = Fl(LastRow(r).cash + LastRow(r).positions_value)
            /\ LastRow(r).positions_value = HeldValue(r, QuotedHoldings(r), 0)
            /\ LastRow(r).cash = sim[r].cash

\* A row with cash left and a holding that is valued, next to a holding that
\* has no quote on the date.
C2_Witness ==
    \E r \in SimRuns :
        /\ HasRow(r)
        /\ LastRow(r).positions_value > 0
        /\ LastRow(r).cash > 0
        /\ \E j \in 1..Len(sim[r].current_positions) : j \notin QuotedHoldings(r)

----------------------------------------------------------------------------
(* Properties of the signal generator *)

\* The rebalance dates _momentum_signals or _mean_reversion_signals has
\* processed.
ProcessedDates ==
    IF gen.pc \in {"loop", "generated"}
    THEN {gen.rebalance_dates[j] : j \in 1..(gen.k - 1)}
    ELSE {}

\* The symbols with a non-null metric on a date, counted from the panel.
EligibleCount(date) ==
    Cardinality(Eligible(gen.strategy_type, price_data, date, gen.lookback_period))

\* C6: for each rebalance date the emitted signals are none when fewer than
\* top_k symbols have a non-null metric, and else exactly top_k signals for
\* distinct symbols, each BUY with weight 1/top_k.
C6_AllOrNoSelection ==
    \A date \in ProcessedDates :
        LET rows == DailySignals(signals, date)
        IN  IF EligibleCount(date) < gen.top_k
            THEN rows = <<>>
            ELSE /\ Len(rows) = gen.top_k
                 /\ \A a, b \in 1..Len(rows) : a # b => rows[a].symbol # rows[b].symbol
                 /\ \A a \in 1..Len(rows) :
                       rows[a].signal = "BUY" /\ rows[a].wden = gen.top_k

\* A date with eligible symbols, but fewer than top_k, has been processed,
\* and so has a date that selected two symbols.
C6_Witness ==
    /\ \E date \in ProcessedDates :
          EligibleCount(date) > 0 /\ EligibleCount(date) < gen.top_k
    /\ \E date \in ProcessedDates : Len(DailySignals(signals, date)) > 1

----------------------------------------------------------------------------
(* Properties of the ranking engine and of the label store *)

\* The label name of run r.
NameOf(r) == LabelName(lab[r].rule, StartDate, EndDate)

\* The label_stocks rows _save_label_data writes for the result of run r.
RowsOf(r) ==
    {[label_name |-> NameOf(r), symbol |-> lab[r].label_data[j].symbol,
      rank |-> j, score |-> Score(lab[r].label_data[j])] :
        j \in 1..Len(lab[r].label_data)}

\* The request of run r was accepted and its rule computation does not raise.
RuleSucceeds(r) ==
    /\ tasks[r] # "none"
    /\ \A o \in RuleOutcomes(lab[r].rule, prices_daily, lab[r].params) : o.ok

\* C3: a label computed again with the same parameters, after its first
\* computation has completed, completes too, with the same members and
\* ranks, and the store then holds exactly the members of the second run.
C3_RecomputeReplaces ==
    \A r, q \in LabRuns :
        ( /\ q \in lab[r].prior
          /\ lab[q].pc = "done"
          /\ lab[r].params = lab[q].params
          /\ lab[r].pc \in {"done", "failed"}
          /\ RuleSucceeds(r) )
        => /\ lab[r].pc = "done"
           /\ lab[r].label_data = lab[q].label_data
           /\ MembersOf(NameOf(r)) = RowsOf(r)

\* The store is as the runs that ended before run r was called left it: any
\* other run has not been called, or had ended before.
Alone(r) == \A q \in LabRuns \ {r} : lab[q].pc = "idle" \/ q \in lab[r].prior

\* C4: the members of a label calculate_label has persisted carry the ranks
\* 1..N, each once, N being the number of ranked symbols the rule returned.
C4_RanksDense ==
    \A r \in LabRuns :
        lab[r].pc \in {"saved", "done"} /\ Alone(r) =>
            /\ {m.rank : m \in MembersOf(NameOf(r))} = 1..Len(lab[r].label_data)
            /\ Cardinality(MembersOf(NameOf(r))) = Len(lab[r].label_data)

\* C5: the gainers rule returns its symbols by change_pct descending, the
\* losers rule by change_pct ascending.
C5_GainersDescending ==
    \A r \in LabRuns :
        lab[r].pc = "calculated" =>
            \A a, b \in 1..Len(lab[r].label_data) :
                a < b =>
                    /\ lab[r].rule = "gainers" =>
                          ~RatioLess(lab[r].label_data[a].change_pct,
                                     lab[r].label_data[b].change_pct)
                    /\ lab[r].rule = "losers" =>
                          ~RatioLess(lab[r].label_data[b].change_pct,
                                     lab[r].label_data[a].change_pct)

\* The store holds the definition of the name of run q and exactly the
\* members of the result of run q.
HoldsLabelOf(q) ==
    /\ \E l \in labels : l.name = NameOf(q)
    /\ MembersOf(NameOf(q)) = RowsOf(q)

\* C7: after a calculate_label that was cancelled or failed, the store holds
\* for the name what it held before (nothing, or the definition and the
\* members of the run that completed before) or the definition with all the
\* members of the run.
C7_AllOrNothing ==
    \A r \in LabRuns :
        ( /\ lab[r].pc \in {"cancelled", "failed"}
          /\ \A q \in LabRuns \ {r} :
                lab[q].pc = "idle" \/ (q \in lab[r].prior /\ lab[q].pc = "done") )
        => \/ HoldsLabelOf(r)
           \/ \E q \in lab[r].prior : HoldsLabelOf(q)
           \/ /\ lab[r].prior = {}
              /\ ~\E l \in labels : l.name = NameOf(r)
              /\ MembersOf(NameOf(r)) = {}

\* C8: two computations of one name that overlap, neither called after the
\* other ended, both complete, and the store then holds one definition of
\* the name and exactly the member rows of one of the two.
C8_ConcurrentRunsComplete ==
    ( \A r \in LabRuns :
         /\ lab[r].pc \in {"done", "failed"}
         /\ lab[r].prior = {}
         /\ RuleSucceeds(r) )
    => /\ \A r \in LabRuns : lab[r].pc = "done"
       /\ Cardinality({l \in labels : l.name = NameOf(1)}) = 1
       /\ \E r \in LabRuns : MembersOf(NameOf(1)) = RowsOf(r)

----------------------------------------------------------------------------
(* Rejection of invalid configuration *)

\* The configuration of the signal generation is not supported.
InvalidConfig ==
    \/ gen.strategy_type \notin {"momentum", "mean_reversion"}
    \/ gen.rebalance_frequency \notin {"daily", "weekly", "monthly"}

\* C10: a signal generation with an unsupported strategy type or frequency
\* raises and produces no signals; a label computation with a rule outside
\* the six supported ones never gets to persist, ends raised once past its
\* rule dispatch, and no step of it changes labels or label_stocks.
C10_InvalidConfigRejected ==
    /\ [](gen.pc # "off" /\ InvalidConfig =>
             gen.pc \in {"start", "error"} /\ signals = <<>>)
    /\ [](\A r \in LabRuns :
             lab[r].pc # "off" /\ lab[r].rule \notin Rules =>
                 lab[r].pc \in {"idle", "created", "failed", "cancelled"})
    /\ [][ \A r \in LabRuns :
             lab[r].rule \notin Rules /\ lab'[r] # lab[r] =>
                 labels' = labels /\ label_stocks' = label_stocks ]_vars

\* The request with the unknown rule has raised and its task is marked
\* failed, while the store holds the label of the other request.
C10_Witness ==
    /\ lab[2].rule \notin Rules
    /\ lab[2].pc = "failed"
    /\ tasks[2] = "failed"
    /\ labels # {}
    /\ label_stocks # {}

----------------------------------------------------------------------------
(* Properties of the rule computation *)

\* C11: for each of the six rules, over a store that holds at least one
\* symbol, the rule computation of an accepted request does not raise: it
\* returns the symbols that qualify, none when no symbol has rows in the
\* window.
C11_SmallResultNoError ==
    [][ \A r \in LabRuns :
          ( /\ lab[r].pc = "created"
            /\ lab[r].rule \in Rules
            /\ DOMAIN prices_daily # {}
            /\ lab'[r].pc \notin {"created", "cancelled"} )
          => lab'[r].pc = "calculated" ]_vars

\* A query of run r raises: that of the symbol list, that of the rows of a
\* symbol of the store under a per-symbol rule, or that of the frame under a
\* rule that loads the frame.
FetchFails(r) ==
    \/ "list" \in lab[r].faults
    \/ lab[r].rule \in {"gainers", "losers"}
          /\ lab[r].faults \cap DOMAIN prices_daily # {}
    \/ lab[r].rule \in FrameRules /\ "frame" \in lab[r].faults

\* C12: a computation one of whose queries raises does not get past its rule
\* computation: it returns no ranking, persists nothing and does not complete.
C12_FetchFailureFailsRun ==
    \A r \in LabRuns :
        lab[r].pc # "off" /\ FetchFails(r) =>
            lab[r].pc \notin {"calculated", "saved", "done"}

\* C13: the percent values of the notifications of a computation lie in
\* 0..100 and never decrease, on every path, and the last one of a
\* computation that has returned its result is 100.
C13_ProgressMonotonic ==
    \A r \in LabRuns :
        lab[r].pc # "off" =>
            /\ \A j \in 1..Len(lab[r].progress) : lab[r].progress[j] \in 0..100
            /\ \A j, k \in 1..Len(lab[r].progress) :
                  j < k => lab[r].progress[j] <= lab[r].progress[k]
            /\ lab[r].pc = "done" =>
                  lab[r].progress[Len(lab[r].progress)] = 100

\* The symbols that qualify under the rule of run r: those the loop of the
\* rule appends an entry for.
Qualifying(r) ==
    IF lab[r].rule \in FrameRules
    THEN Entries(KindOf(lab[r].rule), SortSymbols(LoadedSymbols(prices_daily)),
                 prices_daily, lab[r].params.min_market_cap)
    ELSE Entries("change", SortSymbols(DOMAIN prices_daily), prices_daily,
                 lab[r].params.min_market_cap)

\* C14: the ranked list a rule returns has min(top_k, number of qualifying
\* symbols) entries, top_k being params.top_k, or 20 when it is absent.
C14_TopKHonoured ==
    \A r \in LabRuns :
        lab[r].pc = "calculated" /\ lab[r].rule \in Rules =>
            Len(lab[r].label_data) =
                IF TopK(lab[r].params) < Len(Qualifying(r))
                THEN TopK(lab[r].params) ELSE Len(Qualifying(r))

\* The rules that rank by change_pct.
ChangeRules == {"gainers", "losers", "mcap_gainers", "mcap_losers"}

\* A symbol of the store meets the stated conditions of the price-change
\* rules: at least 2 rows in the window, a positive first close and, under a
\* positive min_market_cap, last close * mean(volume) >= min_market_cap.
MeetsConditions(y, min_market_cap) ==
    /\ y \in DOMAIN prices_daily
    /\ Len(prices_daily[y]) >= 2
    /\ prices_daily[y][1].close > 0
    /\ min_market_cap > 0 =>
          prices_daily[y][Len(prices_daily[y])].close
              * SumField(prices_daily[y], "volume")
            >= min_market_cap * Len(prices_daily[y])

\* C15: every symbol in the result of a price-change rule meets the
\* conditions, and a symbol that meets them is in the result unless the
\* result is cut at top_k entries.
C15_ChangeEligibility ==
    \A r \in LabRuns :
        lab[r].pc = "calculated" /\ lab[r].rule \in ChangeRules =>
            /\ \A j \in 1..Len(lab[r].label_data) :
                  MeetsConditions(lab[r].label_data[j].symbol,
                                  lab[r].params.min_market_cap)
            /\ \A y \in Symbols :
                  MeetsConditions(y, lab[r].params.min_market_cap) =>
                      \/ \E j \in 1..Len(lab[r].label_data) :
                            lab[r].label_data[j].symbol = y
                      \/ Len(lab[r].label_data) >= TopK(lab[r].params)

\* The rule a price-change rule is stated to be an alias of.
AliasOf(rule) ==
    CASE rule = "gainers" -> "mcap_gainers"
      [] rule = "mcap_gainers" -> "gainers"
      [] rule = "losers" -> "mcap_losers"
      [] rule = "mcap_losers" -> "losers"

\* C20: the ranked list a price-change rule has returned, symbols and
\* scores, is one its alias returns over the same store with the same
\* params: the market-cap rules and the plain rules return alike.
C20_MarketCapRulesAreAliases ==
    \A r \in LabRuns :
        lab[r].pc = "calculated" /\ lab[r].rule \in ChangeRules =>
            [ok |-> TRUE, data |-> lab[r].label_data]
                \in RuleOutcomes(AliasOf(lab[r].rule), prices_daily, lab[r].params)

----------------------------------------------------------------------------
(* Scenarios of the backtest *)

\* Scenario A at the scale of the model: momentum, top_k = 2, monthly
\* rebalance, both symbols quoted on every date of the panel, AAA (symbol X)
\* strictly increasing and BBB (symbol Y) flat.
ScenarioA ==
    /\ gen.strategy_type = "momentum"
    /\ gen.rebalance_frequency = "monthly"
    /\ gen.top_k = 2
    /\ Len(AllDates(price_data)) >= 2
    /\ \A j \in 1..Len(AllDates(price_data)) :
          /\ HasQuote(price_data, AllDates(price_data)[j], "AAA")
          /\ HasQuote(price_data, AllDates(price_data)[j], "BBB")
    /\ \A j \in 1..(Len(AllDates(price_data)) - 1) :
          /\ price_data[<<AllDates(price_data)[j], "AAA">>]
                < price_data[<<AllDates(price_data)[j + 1], "AAA">>]
          /\ price_data[<<AllDates(price_data)[j], "BBB">>]
                = price_data[<<AllDates(price_data)[j + 1], "BBB">>]

\* The rebalance dates on which AAA has lookback_period rows behind it.
LookbackDates ==
    {j \in 1..Len(gen.rebalance_dates) :
        MomentumReturn(price_data, "AAA", gen.rebalance_dates[j],
                       gen.lookback_period) # <<>>}

\* C16: in Scenario A the signals of the first rebalance date with
\* sufficient lookback select AAA and only AAA.
C16_ScenarioASelectsOnlyX ==
    ( /\ gen.pc = "generated"
      /\ ScenarioA
      /\ LookbackDates # {} )
    => LET first == CHOOSE j \in LookbackDates : \A k \in LookbackDates : j <= k
           rows == DailySignals(signals, gen.rebalance_dates[first])
       IN  {rows[j].symbol : j \in 1..Len(rows)} = {"AAA"}

----------------------------------------------------------------------------
(* Properties of the steps of the portfolio simulator *)

\* C17: a simulation with a positive initial capital, once it has ended,
\* has emitted one PortfolioState row per distinct date of the price panel,
\* in ascending date order; over a panel of one date, every trade is a BUY.
C17_OneRowPerDate ==
    \A r \in SimRuns :
        sim[r].pc \in {"done", "error"} /\ initial_capital > 0 =>
            /\ [j \in 1..Len(sim[r].portfolio_history) |->
                   sim[r].portfolio_history[j].date] = AllDates(price_data)
            /\ Len(AllDates(price_data)) = 1 =>
                  \A j \in 1..Len(sim[r].trades) : sim[r].trades[j].action = "BUY"

\* The date run r is about to process, and the signals of that date.
NextDate(r) == AllDates(price_data)[sim[r].i]

NextSignals(r) == DailySignals(signals, NextDate(r))

\* Run r is about to process a date.
AtDate(r) == sim[r].pc = "run" /\ sim[r].i <= Len(AllDates(price_data))

\* Every signal of the date allocates less than the price of one share:
\* floor(cash * weight / price) = 0.
ZeroAllocations(r) ==
    /\ sim[r].cash >= 0
    /\ \A j \in 1..Len(NextSignals(r)) :
          sim[r].cash < NextSignals(r)[j].wden * NextSignals(r)[j].price

C19_NoSignalDateCarriesForward ==
    [][ \A r \in SimRuns :
          ( /\ AtDate(r)
            /\ sim'[r] # sim[r]
            /\ initial_capital > 0
            /\ NextSignals(r) = <<>> )
          => /\ sim'[r].cash = sim[r].cash
             /\ sim'[r].current_positions = sim[r].current_positions
             /\ sim'[r].trades = sim[r].trades
             /\ Len(sim'[r].portfolio_history) = Len(sim[r].portfolio_history) + 1
             /\ LET row == sim'[r].portfolio_history[Len(sim'[r].portfolio_history)]
                IN  /\ row.date = NextDate(r)
                    /\ row.cash = sim[r].cash
                    /\ row.positions_value =
                          PositionsValue(sim[r].current_positions, price_data,
                                         NextDate(r), 0) ]_vars

----------------------------------------------------------------------------
(* Properties of the rebalance dates *)

\* The dates of the panel.
PanelDateSet == {k[1] : k \in DOMAIN price_data}

\* _get_rebalance_dates has returned to a signal generation of the frequency.
HasRebalanceDates(frequency) ==
    /\ gen.pc \in {"loop", "generated"}
    /\ gen.rebalance_frequency = frequency

\* C21: the monthly rebalance dates are the first date of each (year, month)
\* pair of the panel, in ascending order.
C21_MonthlyFirstOfEachYearMonth ==
    HasRebalanceDates("monthly") =>
        gen.rebalance_dates =
            SortDates({d \in PanelDateSet :
                         ~\E e \in PanelDateSet :
                             e[1] = d[1] /\ e[2] = d[2] /\ e[3] < d[3]})

\* The Mondays of the calendar among the dates of the model: 2 January 2023,
\* 6 February 2023 and 5 February 2024 (3 January 2023 and 6 February 2024
\* are Tuesdays).
Mondays == {<<2023, 1, 2>>, <<2023, 2, 6>>, <<2024, 2, 5>>}

\* C22: the weekly rebalance dates are the dates of the panel that are
\* Mondays, in ascending order, no other day standing in for a Monday that
\* is absent; the daily rebalance dates are all the dates of the panel.
C22_WeeklyMondaysDailyAll ==
    /\ HasRebalanceDates("weekly") =>
          gen.rebalance_dates = SortDates(PanelDateSet \cap Mondays)
    /\ HasRebalanceDates("daily") =>
          gen.rebalance_dates = SortDates(PanelDateSet)

\* A weekly generation has returned over a panel with the Tuesday of a week
\* whose Monday is absent and with the Monday of another week.
C22_Witness ==
    /\ gen.pc = "generated"
    /\ gen.rebalance_frequency = "weekly"
    /\ <<2023, 1, 3>> \in PanelDateSet
    /\ <<2023, 1, 2>> \notin PanelDateSet
    /\ <<2023, 2, 6>> \in PanelDateSet
    /\ gen.rebalance_dates # <<>>

----------------------------------------------------------------------------
(* Properties of the trade ledger *)

\* The trades of a ledger are in ascending order of date.
DatesAscending(t) ==
    \A j, k \in 1..Len(t) : j < k => ~DateLess(t[k].date, t[j].date)

\* Within a date no BUY comes before a SELL.
SellsBeforeBuys(t) ==
    \A j, k \in 1..Len(t) :
        (j < k /\ t[j].date = t[k].date) =>
            ~(t[j].action = "BUY" /\ t[k].action = "SELL")

\* Two BUYs of a date are in the order of the signals of the date.
BuysInSignalOrder(t) ==
    \A j, k \in 1..Len(t) :
        (j < k /\ t[j].date = t[k].date
               /\ t[j].action = "BUY" /\ t[k].action = "BUY") =>
            \E a, b \in 1..Len(DailySignals(signals, t[j].date)) :
                /\ a < b
                /\ DailySignals(signals, t[j].date)[a].symbol = t[j].symbol
                /\ DailySignals(signals, t[j].date)[b].symbol = t[k].symbol

\* C23: the trade ledger of a run is in ascending order of date; within a
\* date every SELL precedes every BUY, and the BUYs of a date are in the order
\* of the signals.
C23_LedgerOrder ==
    \A r \in SimRuns :
        /\ DatesAscending(sim[r].trades)
        /\ SellsBeforeBuys(sim[r].trades)
        /\ BuysInSignalOrder(sim[r].trades)

\* A run has returned a ledger with a BUY on one date and, on a later date, a
\* SELL followed by two BUYs.
C23_Witness ==
    \E r \in SimRuns :
        /\ sim[r].pc = "done"
        /\ \E h, j, k, l \in 1..Len(sim[r].trades) :
              /\ h < j /\ j < k /\ k < l
              /\ DateLess(sim[r].trades[h].date, sim[r].trades[j].date)
              /\ sim[r].trades[j].date = sim[r].trades[l].date
              /\ sim[r].trades[j].action = "SELL"
              /\ sim[r].trades[k].action = "BUY"
              /\ sim[r].trades[l].action = "BUY"
              /\ sim[r].trades[k].symbol # sim[r].trades[l].symbol

\* The cash after the trades of a ledger, from the cash before them: a SELL
\* credits its value, a BUY debits it.
RECURSIVE CashAfter(_, _)
CashAfter(t, cash) ==
    IF t = <<>> THEN cash
    ELSE CashAfter(Tail(t),
            IF Head(t).action = "SELL" THEN Fl(cash + Head(t).value)
            ELSE Fl(cash - Head(t).value))

\* Run r takes the step of a date that has signals.
RebalanceStep(r) ==
    /\ sim[r].pc = "run"
    /\ sim[r].i <= Len(AllDates(price_data))
    /\ sim'[r] # sim[r]
    /\ signals # <<>>
    /\ DailySignals(signals, AllDates(price_data)[sim[r].i]) # <<>>

\* The liquidation of the holdings held, with the trades the step added and
\* the holdings after it.
Liquidated(held, date, ds, added, cash, cash_after, held_after) ==
    /\ \A j \in 1..Len(held) :
          IF HasQuote(price_data, date, held[j][1])
          THEN \E n \in 1..Len(added) :
                  /\ added[n] =
                        [date |-> date, symbol |-> held[j][1],
                         action |-> "SELL", shares |-> held[j][2],
                         price |-> price_data[<<date, held[j][1]>>],
                         value |-> Fl(held[j][2] *
                                      price_data[<<date, held[j][1]>>])]
                  /\ \A m \in 1..Len(added) :
                        (added[m].action = "SELL"
                           /\ added[m].symbol = held[j][1]) => m = n
          ELSE \A n \in 1..Len(added) :
                  ~(added[n].action = "SELL" /\ added[n].symbol = held[j][1])
    /\ \A n \in 1..Len(added) :
          added[n].action = "SELL" =>
              \E j \in 1..Len(held) : held[j][1] = added[n].symbol
    /\ cash_after = CashAfter(added, cash)
    /\ \A j \in 1..Len(held_after) :
          /\ held_after[j][2] > 0
          /\ \E a \in 1..Len(ds) : ds[a].symbol = held_after[j][1]

\* C24: on a date with signals the step records one SELL for each holding
\* with a quote (the shares held, at the close, cash credited by the value),
\* none for a holding without a quote, and leaves only holdings of symbols
\* of the signals of the date, each with shares > 0.
C24_LiquidationOnRebalance ==
    [][\A r \in SimRuns :
          RebalanceStep(r) =>
              Liquidated(sim[r].current_positions,
                         AllDates(price_data)[sim[r].i],
                         DailySignals(signals, AllDates(price_data)[sim[r].i]),
                         SubSeq(sim'[r].trades, Len(sim[r].trades) + 1,
                                Len(sim'[r].trades)),
                         sim[r].cash, sim'[r].cash,
                         sim'[r].current_positions)]_vars

\* A run held two symbols at a date with signals on which only one of them
\* had a quote: one was sold, the other was dropped without a trade.
C24_Witness ==
    \E r \in SimRuns : \E j, k, l \in 1..Len(sim[r].trades) :
        /\ j < k /\ k < l
        /\ sim[r].trades[j].action = "BUY"
        /\ sim[r].trades[k].action = "BUY"
        /\ sim[r].trades[j].date = sim[r].trades[k].date
        /\ sim[r].trades[j].symbol # sim[r].trades[k].symbol
        /\ sim[r].trades[l].action = "SELL"
        /\ DateLess(sim[r].trades[k].date, sim[r].trades[l].date)
        /\ \E x \in {sim[r].trades[j].symbol, sim[r].trades[k].symbol} :
              /\ ~HasQuote(price_data, sim[r].trades[l].date, x)
              /\ \A m \in 1..Len(sim[r].trades) :
                    sim[r].trades[m].date = sim[r].trades[l].date =>
                        sim[r].trades[m].symbol # x
              /\ \A m \in 1..Len(sim[r].current_positions) :
                    sim[r].current_positions[m][1] # x

----------------------------------------------------------------------------
(* Properties of the stored scores *)

\* The value the rule ranks an entry by.
RankingValue(rule, entry) ==
    CASE rule = "volume" -> entry.avg_volume
      [] rule = "turnover" -> entry.turnover_rate
      [] OTHER -> entry.change_pct

\* The score stored for the member of rank j of the label of run r.
StoredScores(r, j) ==
    {m.score : m \in {n \in MembersOf(NameOf(r)) :
                         n.symbol = lab[r].label_data[j].symbol /\ n.rank = j}}

\* C25: the score stored with each member of a saved label is the value the
\* rule ranked by, so that the stored scores do not increase with the rank for
\* a descending rule and do not decrease with the rank for a losers rule.
C25_StoredScoreIsRankingValue ==
    \A r \in LabRuns :
        lab[r].pc \in {"saved", "done"} =>
            /\ \A j \in 1..Len(lab[r].label_data) :
                  /\ StoredScores(r, j) # {}
                  /\ \A x \in StoredScores(r, j) :
                        SameRatio(x, RankingValue(lab[r].rule,
                                                  lab[r].label_data[j]))
            /\ \A a, b \in MembersOf(NameOf(r)) :
                  a.rank < b.rank =>
                      IF lab[r].rule \in {"losers", "mcap_losers"}
                      THEN ~RatioLess(b.score, a.score)
                      ELSE ~RatioLess(a.score, b.score)

----------------------------------------------------------------------------
(* Properties of a backtest run and of its metrics *)

\* The run is a backtest with a positive capital whose signal generator
\* emitted no signal.
RunWithoutSignals ==
    /\ met.pc \in {"idle", "start", "returned"}
    /\ sim[1].pc # "off"
    /\ signals = <<>>
    /\ initial_capital > 0

\* C26: a run without any signal does not raise; its simulation returns one
\* row per date with cash = total_value = initial_capital and no trade, and
\* its metrics have total_return 0, max_drawdown 0 and sharpe_ratio 0.
C26_RunWithoutSignals ==
    RunWithoutSignals =>
        /\ sim[1].pc # "error"
        /\ sim[1].pc = "done" =>
              /\ Column(sim[1].portfolio_history, "date") = AllDates(price_data)
              /\ \A j \in 1..Len(sim[1].portfolio_history) :
                    /\ sim[1].portfolio_history[j].cash = initial_capital
                    /\ sim[1].portfolio_history[j].total_value = initial_capital
              /\ sim[1].trades = <<>>
        /\ met.pc = "returned" =>
              /\ SameRatio(met.result.total_return, Zero)
              /\ SameRatio(met.result.max_drawdown, Zero)
              /\ met.result.sharpe_ratio.zero

\* The decline (v_i - v_j) / v_i of a pair of total values, v_i not 0, as a
\* ratio with a positive denominator; the difference is a float difference.
Decline(v_i, v_j) ==
    IF v_i > 0 THEN <<Fl(v_i - v_j), v_i>> ELSE <<Fl(v_j - v_i), 0 - v_i>>

\* The declines of the pairs i <= j of a series; a pair whose v_i is 0 has
\* none.
PairDeclines(values) ==
    UNION {{Decline(values[i], values[j]) : j \in i..Len(values)} :
              i \in {a \in 1..Len(values) : values[a] # 0}}

\* The series does not decrease.
NonDecreasing(values) ==
    \A j \in 1..(Len(values) - 1) : values[j] <= values[j + 1]

\* max_drawdown is the largest of the declines of the series, not negative,
\* and 0 for a series that does not decrease.
LargestDecline(values, max_drawdown) ==
    /\ ~RatioLess(max_drawdown, Zero)
    /\ \A d \in PairDeclines(values) : ~RatioLess(max_drawdown, d)
    /\ \/ SameRatio(max_drawdown, Zero)
       \/ \E d \in PairDeclines(values) : SameRatio(max_drawdown, d)
    /\ NonDecreasing(values) => SameRatio(max_drawdown, Zero)

\* C27: max_drawdown is the maximum over the pairs i <= j of
\* (total_value_i - total_value_j) / total_value_i, is never negative, and is
\* 0 for a series that does not decrease and for an empty series.
C27_MaxDrawdownLargestDecline ==
    met.pc = "returned" =>
        LargestDecline(Column(met.portfolio_history, "total_value"),
                       met.result.max_drawdown)

\* The same over the series without a negative total value.
C27_NonNegativeSeries ==
    (met.pc = "returned"
       /\ \A j \in 1..Len(met.portfolio_history) :
             met.portfolio_history[j].total_value >= 0) =>
        LargestDecline(Column(met.portfolio_history, "total_value"),
                       met.result.max_drawdown)

\* C28 as stated: win_rate is 0.6 for every run (a run has a row of history
\* for each of its dates) and total_trades is the number of rows of the trade
\* ledger.
C28_WinRateAlwaysPlaceholder ==
    (met.pc = "returned" /\ met.portfolio_history # <<>>) =>
        /\ SameRatio(met.result.win_rate, WinRatePlaceholder)
        /\ met.result.total_trades = Len(met.trades)

\* C28, amended: win_rate is 0.6 for every run with at least one trade,
\* whatever the trades, and 0.0 for a run without a trade; total_trades is
\* the number of rows of the trade ledger.
C28_WinRatePlaceholderWithTrades ==
    met.pc = "returned" =>
        /\ met.trades # <<>> =>
              SameRatio(met.result.win_rate, WinRatePlaceholder)
        /\ met.trades = <<>> => SameRatio(met.result.win_rate, Zero)
        /\ met.result.total_trades = Len(met.trades)

\* The metrics of a simulated run with a BUY and a SELL in its ledger have
\* been computed.
C28_Witness ==
    /\ met.pc = "returned"
    /\ sim[1].pc = "done"
    /\ met.trades = sim[1].trades
    /\ \E j, k \in 1..Len(met.trades) :
          met.trades[j].action = "BUY" /\ met.trades[k].action = "SELL"

----------------------------------------------------------------------------
(* Properties of the task records *)

\* C29: once a calculate_label call that created a task record has ended, the
\* record is 'completed' when the call returned a result and 'failed' when it
\* raised; it is never left 'queued'.
C29_TaskRecordTerminal ==
    \A r \in LabRuns :
        (lab[r].pc \in {"done", "failed", "cancelled"} /\ tasks[r] # "none") =>
            /\ lab[r].pc = "done" => tasks[r] = "completed"
            /\ lab[r].pc \in {"failed", "cancelled"} => tasks[r] = "failed"
            /\ tasks[r] # "queued"

----------------------------------------------------------------------------
(* Properties of the task manager *)

\* Task n is the last task created under its id.
Latest(n) ==
    \A k \in 1..Len(mgr.created) :
        mgr.created[k].task_id = mgr.created[n].task_id => k <= n

\* C30: when create_task replaces a task that is still running, that task
\* is cancelled; as long as the new task has not finished it stays registered
\* under the id (get_task_status is not None, cancel_task reaches it), and
\* its cleanup callback is run by no other task's completion.
C30_ReplacementKeepsNewTask ==
    \A n \in 1..Len(mgr.created) :
        mgr.created[n].replaced # 0 =>
            /\ mgr.created[mgr.created[n].replaced].must_cancel
            /\ (~Done(mgr.created[n]) /\ Latest(n)) =>
                  /\ GetTaskStatus(mgr.created[n].task_id) # "None"
                  /\ mgr._running_tasks[mgr.created[n].task_id] = n
            /\ \A j \in 1..Len(mgr.cleaned) :
                  mgr.cleaned[j][1] = n => mgr.cleaned[j][2] = n

====
